---- MODULE Spec2Model ----
(***************************************************************************)
(* Subledger, polling reconciler and withdrawal initiator of               *)
(* prime-send-receive-go.                                                  *)
(*                                                                         *)
(* Identifiers (user ids, idempotency keys, custody transaction ids, asset *)
(* keys) are sequences of their "-"-separated segments, so that            *)
(* strings.Split(id, "-") is the sequence itself.  The empty string is     *)
(* <<"">>.  Amounts are exact decimals, modelled as integers of a fixed    *)
(* scale.                                                                  *)
(*                                                                         *)
(* The store is SQLite in WAL mode behind database/sql: reads see the last *)
(* committed state, one transaction at a time holds the write lock, writes *)
(* of an open transaction are private until Commit, and any statement may  *)
(* fail (SQLITE_BUSY included), which the code turns into an error return  *)
(* and the deferred Rollback.                                              *)
(***************************************************************************)
EXTENDS Integers, Sequences, FiniteSets, TLC

\* ------------------------------------------------------------ bounds
\* number of concurrent direct callers of ProcessTransaction
NumCallers == 3
\* number of concurrent runs of the withdrawal initiator
NumInitiators == 2
\* last instant of the reconciler's clock
MaxTime == 2

\* ------------------------------------------------------------ data
EmptyStr == <<"">>

U1 == <<"aaaa", "0001">>
U2 == <<"bbbb", "0002">>
Users == {U1, U2}
\* a user of the users table that is not active
U3 == <<"cccc", "0003">>

SYM == <<"ETH">>
SYMNET == <<"ETH", "mainnet">>
AssetKeys == {SYM, SYMNET}

Keys == (Users \cup {U3}) \X AssetKeys

Callers == 1..NumCallers
Initiators == (NumCallers + 1)..(NumCallers + NumInitiators)
Recon == NumCallers + NumInitiators + 1
Procs == Callers \cup Initiators \cup {Recon}

\* account_balances row (users.go InitSchema); exists = FALSE: no row
NoBalanceRow == [exists |-> FALSE, balance |-> 0, version |-> 0, lastTx |-> 0]

EmptyStore ==
  [balances |-> [k \in Keys |-> NoBalanceRow],
   transactions |-> <<>>,
   journal |-> <<>>]

NoCall ==
  [pc |-> "idle", userId |-> U1, asset |-> SYM, type |-> "deposit", amount |-> 0,
   ext |-> EmptyStr, address |-> EmptyStr, reference |-> EmptyStr,
   currentBalance |-> 0, version |-> 0, txId |-> 0, result |-> "none"]

VARIABLES
  db,              \* committed store: balances, transactions, journal
  writer,          \* holder of the store's write lock, 0 when free
  wtx,             \* the open write transaction's private view of the store
  call,            \* per process: the ProcessTransaction invocation in progress
  custody,         \* custody platform: status of each custody transaction
  recon,           \* reconciler: position in the poll cycle and the fetched page
  processedTxIds,  \* reconciler: in-memory cache, custody id -> time marked
  now,             \* reconciler's clock
  ini,             \* per initiator run: position and outcome
  keys,            \* key minting and resolution over a user table: inputs and results
  life             \* listener process: main, Stop, the two loops and their channels

ledgerVars == <<db, writer, wtx, call>>
systemVars == <<custody, recon, processedTxIds, now, ini, keys, life>>
vars == <<db, writer, wtx, call, custody, recon, processedTxIds, now, ini, keys, life>>

\* ------------------------------------------------------------ queries

RowsWithExt(txs, ext) == {i \in 1..Len(txs) : txs[i].ext = ext}

\* queryCheckDuplicateTransaction: SELECT id ... WHERE external_transaction_id = ?
IsDuplicate_Never(txs, ext) == FALSE

IsDuplicate(txs, ext) == ext # EmptyStr /\ RowsWithExt(txs, ext) # {}

\* queryUpdateAccountBalance: ... WHERE user_id = ? AND asset = ? AND version = ?
RowsAffected_NoVersion(bal, key, version) == IF bal[key].exists THEN 1 ELSE 0

RowsAffected(bal, key, version) ==
  IF bal[key].exists /\ bal[key].version = version THEN 1 ELSE 0

\* queryGetBalance: zero when there is no row
GetBalance(store, userId, asset) ==
  IF store.balances[<<userId, asset>>].exists
  THEN store.balances[<<userId, asset>>].balance
  ELSE 0

RECURSIVE SumAmounts(_, _, _)
SumAmounts(txs, key, n) ==
  IF n = 0 THEN 0
  ELSE SumAmounts(txs, key, n - 1)
       + (IF <<txs[n].userId, txs[n].asset>> = key /\ txs[n].status = "confirmed"
          THEN txs[n].amount ELSE 0)

\* queryReconcileBalance: COALESCE(SUM(amount), 0) ... AND status = 'confirmed'
ConfirmedSum(store, key) == SumAmounts(store.transactions, key, Len(store.transactions))

\* ------------------------------------------------------------ ProcessTransaction

\* the balance row is looked up by asset alone
CallKey_AssetOnly(c) == <<U1, c.asset>>

\* queryGetAccountBalance, queryInsertAccountBalance, queryUpdateAccountBalance:
\* WHERE user_id = ? AND asset = ?
CallKey(c) == <<c.userId, c.asset>>

NewCall(userId, asset, type, amount, ext, address, reference) ==
  [pc |-> "dupcheck", userId |-> userId, asset |-> asset, type |-> type,
   amount |-> amount, ext |-> ext, address |-> address, reference |-> reference,
   currentBalance |-> 0, version |-> 0, txId |-> 0, result |-> "none"]

Finish(c, res) == [c EXCEPT !.pc = "done", !.result = res]

\* the store as the statements of p's transaction see it
View(p) == IF writer = p THEN wtx ELSE db

\* a write statement of p can run: the write lock is free or already p's
CanWrite(p) == writer \in {0, p}

\* deferred tx.Rollback(): the transaction's writes are dropped
RollbackStore_Publish(p) == IF writer = p THEN wtx ELSE db

RollbackStore(p) == db

Rollback(p, res) ==
  /\ db' = RollbackStore(p)
  /\ writer' = IF writer = p THEN 0 ELSE writer
  /\ wtx' = IF writer = p THEN EmptyStore ELSE wtx
  /\ call' = [call EXCEPT ![p] = Finish(call[p], res)]

\* transactions.go:34: the duplicate return comes before BeginTx (line 41), so no
\* statement of the call has written and there is nothing to roll back
ReturnDuplicate_AfterCreate(p) ==
  /\ call' = [call EXCEPT ![p] = Finish(call[p], "duplicate")]
  /\ db' = [db EXCEPT !.balances[CallKey(call[p])] =
              IF @.exists THEN @ ELSE [exists |-> TRUE, balance |-> 0, version |-> 1, lastTx |-> 0]]
  /\ UNCHANGED <<writer, wtx>>

ReturnDuplicate(p) ==
  /\ call' = [call EXCEPT ![p] = Finish(call[p], "duplicate")]
  /\ UNCHANGED <<db, writer, wtx>>

\* transactions.go:26-38
CheckDuplicate(p) ==
  /\ call[p].pc = "dupcheck"
  /\ IF IsDuplicate(db.transactions, call[p].ext)
     THEN ReturnDuplicate(p)
     ELSE /\ call' = [call EXCEPT ![p].pc = "select"]
          /\ UNCHANGED <<db, writer, wtx>>

\* transactions.go:40-72, the read: BeginTx and queryGetAccountBalance
GetAccountBalance(p) ==
  /\ call[p].pc = "select"
  /\ LET row == View(p).balances[CallKey(call[p])]
     IN IF row.exists
        THEN call' = [call EXCEPT ![p].pc = "insert",
                                  ![p].currentBalance = row.balance,
                                  ![p].version = row.version]
        ELSE call' = [call EXCEPT ![p].pc = "create",
                                  ![p].currentBalance = 0,
                                  ![p].version = 1]
  /\ UNCHANGED <<db, writer, wtx>>

\* users.go:90-99, 122: UNIQUE(user_id, asset) on account_balances refuses the
\* insert of a second row for a key
UniqueViolation_Never(bal, key) == FALSE

UniqueViolation(bal, key) == bal[key].exists

\* transactions.go:55-64: queryInsertAccountBalance under UNIQUE(user_id, asset)
InsertAccountBalance(p) ==
  /\ call[p].pc = "create"
  /\ CanWrite(p)
  /\ LET v == IF writer = p THEN wtx ELSE db
         k == CallKey(call[p])
     IN IF UniqueViolation(v.balances, k)
        THEN Rollback(p, "store_error")
        ELSE /\ wtx' = [v EXCEPT !.balances[k] =
                          [exists |-> TRUE, balance |-> 0, version |-> 1, lastTx |-> 0]]
             /\ writer' = p
             /\ call' = [call EXCEPT ![p].pc = "insert"]
             /\ UNCHANGED db

\* transactions.go:75: newBalance := currentBalance.Add(amount)
NewBalance_AmountOnly(c) == c.amount

NewBalance_Floored(c) == IF c.currentBalance + c.amount < 0 THEN 0 ELSE c.currentBalance + c.amount

NewBalance(c) == c.currentBalance + c.amount

\* transactions.go:77-93: the row queryInsertTransaction writes
NewTransactionRow(c, id) ==
  [id |-> id, userId |-> c.userId, asset |-> c.asset, type |-> c.type,
   amount |-> c.amount,
   balanceBefore |-> c.currentBalance,
   balanceAfter |-> NewBalance(c),
   ext |-> c.ext, address |-> c.address, reference |-> c.reference,
   status |-> "confirmed"]

InsertTransaction(p) ==
  /\ call[p].pc = "insert"
  /\ CanWrite(p)
  /\ LET v == IF writer = p THEN wtx ELSE db
         id == Len(v.transactions) + 1
     IN /\ wtx' = [v EXCEPT !.transactions = Append(@, NewTransactionRow(call[p], id))]
        /\ writer' = p
        /\ call' = [call EXCEPT ![p].pc = "update", ![p].txId = id]
        /\ UNCHANGED db

\* queryUpdateAccountBalance: SET ... version = version + 1
NextVersion_Same(v) == v

NextVersion(v) == v + 1

\* transactions.go:108-120: queryUpdateAccountBalance and the rowsAffected test
UpdateAccountBalance(p) ==
  /\ call[p].pc = "update"
  /\ writer = p
  /\ LET k == CallKey(call[p])
     IN IF RowsAffected(wtx.balances, k, call[p].version) = 0
        THEN Rollback(p, "concurrent_modification")
        ELSE /\ wtx' = [wtx EXCEPT !.balances[k] =
                          [exists |-> TRUE,
                           balance |-> NewBalance(call[p]),
                           version |-> NextVersion(@.version),
                           lastTx |-> call[p].txId]]
             /\ call' = [call EXCEPT ![p].pc = "journal"]
             /\ UNCHANGED <<db, writer>>

JournalEntries_UserSideOnly(t) ==
  IF t.type = "deposit"
  THEN << [txId |-> t.id, accountType |-> "user_asset", debit |-> t.amount, credit |-> 0] >>
  ELSE << [txId |-> t.id, accountType |-> "user_asset", debit |-> 0, credit |-> 0 - t.amount] >>

\* transactions.go:143-200
JournalEntries(t) ==
  IF t.type = "deposit"
  THEN << [txId |-> t.id, accountType |-> "user_asset", debit |-> t.amount, credit |-> 0],
          [txId |-> t.id, accountType |-> "system_liability", debit |-> 0, credit |-> t.amount] >>
  ELSE IF t.type = "withdrawal"
  THEN << [txId |-> t.id, accountType |-> "user_asset", debit |-> 0, credit |-> 0 - t.amount],
          [txId |-> t.id, accountType |-> "system_liability", debit |-> 0 - t.amount, credit |-> 0] >>
  ELSE << >>

addJournalEntries(p) ==
  /\ call[p].pc = "journal"
  /\ writer = p
  /\ wtx' = [wtx EXCEPT !.journal = @ \o JournalEntries(wtx.transactions[call[p].txId])]
  /\ call' = [call EXCEPT ![p].pc = "commit"]
  /\ UNCHANGED <<db, writer>>

\* transactions.go:127-139
Commit(p) ==
  /\ call[p].pc = "commit"
  /\ writer = p
  /\ db' = wtx
  /\ writer' = 0
  /\ wtx' = EmptyStore
  /\ call' = [call EXCEPT ![p] = Finish(call[p], "committed")]

\* any statement of the call fails (err != nil): error return, deferred Rollback
\* a failure of the duplicate query is reported as "failed to check for duplicate
\* transaction: ..." (transactions.go:36), any later one under another text
StoreError(p) ==
  /\ call[p].pc \in {"dupcheck", "select", "create", "insert", "update", "journal", "commit"}
  /\ Rollback(p, IF call[p].pc = "dupcheck" THEN "duplicate_check_failed" ELSE "store_error")

\* service.go:24-33: the calls run on separate connections of one SQLite file in
\* WAL mode, which admits one writer: the first write of a transaction that
\* finds the write lock held by another connection is refused with "database is
\* locked" (when the busy timeout runs out, or at once when the holder commits
\* over the snapshot the transaction read), and the call returns that error
\* (transactions.go:61-63, 91-93).  One of the failures StoreError stands for.
DatabaseLocked(p) ==
  /\ call[p].pc \in {"create", "insert"}
  /\ writer \notin {0, p}
  /\ Rollback(p, "store_error")

\* ------------------------------------------------------------ direct callers

ExtIds == {EmptyStr, <<"x1">>}
CallKinds == {<<"deposit", 2>>, <<"withdrawal", 0 - 1>>}

\* a caller invokes ProcessTransaction(userId, asset, type, amount, externalTxId, ...)
CallProcessTransaction(p) ==
  /\ call[p].pc = "idle"
  /\ \E u \in Users, kind \in CallKinds, e \in ExtIds :
       call' = [call EXCEPT ![p] = NewCall(u, SYM, kind[1], kind[2], e, EmptyStr, EmptyStr)]
  /\ UNCHANGED <<db, writer, wtx>>

\* ------------------------------------------------------------ ReconcileBalance

\* balances.go:97: tolerance of the comparison (1e-8 of a unit); the amounts
\* of the model are whole units, so only equal values are within it
Tolerance == 0

WithinTolerance(currentBalance, calculatedBalance) ==
  (IF currentBalance < calculatedBalance
   THEN calculatedBalance - currentBalance
   ELSE currentBalance - calculatedBalance) <= Tolerance

\* balances.go:73-77: the stored balance is read
ReconcileGetBalance(p) ==
  /\ call[p].pc = "idle"
  /\ \E u \in Users :
       call' = [call EXCEPT ![p] = [NoCall EXCEPT !.pc = "reconcile", !.userId = u,
                                                  !.asset = SYM, !.type = "reconcile",
                                                  !.currentBalance = GetBalance(db, u, SYM)]]
  /\ UNCHANGED <<db, writer, wtx>>

\* balances.go:79-107: the confirmed amounts are summed in a second query and
\* compared with the balance read before
ReconcileSum(p) ==
  /\ call[p].pc = "reconcile"
  /\ call' = [call EXCEPT ![p] =
                Finish(@, IF WithinTolerance(@.currentBalance, ConfirmedSum(db, CallKey(@)))
                          THEN "reconciled" ELSE "balance_mismatch")]
  /\ UNCHANGED <<db, writer, wtx>>

\* balances.go:75-77, 88-90: the first or the second query fails
ReconcileQueryFails(p) ==
  /\ \/ /\ call[p].pc = "reconcile"
        /\ call' = [call EXCEPT ![p] = Finish(@, "store_error")]
     \/ /\ call[p].pc = "idle"
        /\ \E u \in Users :
             call' = [call EXCEPT ![p] =
                        Finish([NoCall EXCEPT !.userId = u, !.asset = SYM, !.type = "reconcile"],
                               "store_error")]
  /\ UNCHANGED <<db, writer, wtx>>

\* ------------------------------------------------------------ deployment

\* addresses table: one deposit address of U1 for the asset key SYM, and one
\* stored under another asset key than the monitored wallet's
ADDR1 == <<"0xa1">>
ADDR3 == <<"0xc3">>
\* a deposit address of the inactive user
ADDR4 == <<"0xd4">>
AddressRows == {[address |-> ADDR1, userId |-> U1, asset |-> SYM],
                [address |-> ADDR3, userId |-> U1, asset |-> SYMNET],
                [address |-> ADDR4, userId |-> U3, asset |-> SYM]}

\* users table (001_create_users_table.sql), in the order of the scan
UsersTable == <<[id |-> U1, active |-> TRUE],
                [id |-> U3, active |-> FALSE],
                [id |-> U2, active |-> TRUE]>>

UserRow(userId) == CHOOSE n \in 1..Len(UsersTable) : UsersTable[n].id = userId

\* the gate of queryFindUserByAddress and queryGetActiveUsers: users.active
IsActive_Always(userId) == TRUE

IsActive(userId) == UsersTable[UserRow(userId)].active

\* addresses.go FindUserByAddress: the rows of the address joined with their
\* active user (none: user nil)
FindUserByAddress(address) ==
  {r \in AddressRows : r.address = address /\ IsActive(r.userId)}

\* the monitored wallet, keyed by the asset key the deposit addresses carry
Wallet == [id |-> <<"w1">>, AssetNetwork |-> SYM]
\* a second monitored wallet, polled before the first in every cycle
Wallet2 == [id |-> <<"w2">>, AssetNetwork |-> SYMNET]
MonitoredWallets == <<Wallet2, Wallet>>

\* ------------------------------------------------------------ custody

DepositAmount == 3
WithdrawAmount == 2

D1 == <<"dep", "d1">>
WId(i) == <<"wd", ToString(i)>>
\* a deposit to an address no user owns, and one whose amount text does not parse
D2 == <<"dep", "d2">>
D3 == <<"dep", "d3">>
\* deposits of amount zero and of a negative amount, and a deposit to the
\* address stored under another asset key
D4 == <<"dep", "d4">>
D5 == <<"dep", "d5">>
D6 == <<"dep", "d6">>
Deposits == {D1, D2, D3, D4, D5, D6}
\* deposits whose transfer_to names an account identifier or nothing: the
\* identifier is an address of U1 and the address nobody's, both are empty, the
\* identifier is nobody's and the address an address of U1
D7 == <<"dep", "d7">>
D8 == <<"dep", "d8">>
D9 == <<"dep", "d9">>
IdentifiedDeposits == {D7, D8, D9}
\* a deposit to the address of the inactive user
D10 == <<"dep", "d10">>
AllDeposits == Deposits \cup IdentifiedDeposits \cup {D10}
\* a withdrawal made outside the initiator: its key carries no user's prefix
WX == <<"wd", "x">>
UnknownKey == <<"zzzz", "k1">>
\* a withdrawal whose key carries the prefix of the inactive user's id
WY == <<"wd", "y">>
InactiveKey == <<"cccc", "k2">>
\* transactions not made by the initiator that exist on the custody platform
\* at the same time
MaxDeposits == 1
ADDR2 == <<"0xb2">>
CustodyIds == AllDeposits \cup {WX, WY} \cup {WId(i) : i \in Initiators}

\* the initiator run the custody withdrawal w belongs to
RunOf(w) == CHOOSE i \in Initiators : WId(i) = w

\* main.go:163-165: first segment of the user id, then the tail of a fresh UUID
MintKey_WholeUuid(userId, uuid) == uuid

MintKey(userId, uuid) == <<userId[1]>> \o Tail(uuid)

FreshUuid(i) == <<"f" \o ToString(i), "r" \o ToString(i)>>
IdemKey(i) == MintKey(U1, FreshUuid(i))

\* the amount the custody platform reports for a withdrawal: unsigned for the
\* first run's withdrawal, negative for every other one
ReportedWithdrawalAmount(id) ==
  IF id = WId(NumCallers + 1) THEN WithdrawAmount ELSE 0 - WithdrawAmount

\* a custody transaction as ListWalletTransactions reports it
\* the amount text of a custody transaction as decimal.NewFromString reads it
Amount(n) == [err |-> FALSE, value |-> n]
BadAmount == [err |-> TRUE, value |-> 0]

CustodyTx(id, status) ==
  IF id \in AllDeposits
  THEN [id |-> id, type |-> "DEPOSIT", status |-> status,
        amount |-> IF id = D3 THEN BadAmount
                   ELSE IF id = D4 THEN Amount(0)
                   ELSE IF id = D5 THEN Amount(0 - DepositAmount)
                   ELSE Amount(DepositAmount),
        address |-> IF id \in {D2, D7} THEN ADDR2 ELSE IF id = D6 THEN ADDR3
                    ELSE IF id = D8 THEN EmptyStr ELSE IF id = D10 THEN ADDR4 ELSE ADDR1,
        accountIdentifier |-> IF id = D7 THEN ADDR1 ELSE IF id = D9 THEN ADDR2 ELSE EmptyStr,
        idempotencyKey |-> EmptyStr]
  ELSE [id |-> id, type |-> "WITHDRAWAL", status |-> status,
        amount |-> Amount(ReportedWithdrawalAmount(id)),
        address |-> EmptyStr, accountIdentifier |-> EmptyStr,
        idempotencyKey |-> IF id = WX THEN UnknownKey ELSE IF id = WY THEN InactiveKey
                           ELSE IdemKey(RunOf(id))]

FinalStatus(id) == IF id \in AllDeposits THEN "TRANSACTION_IMPORTED" ELSE "TRANSACTION_DONE"

\* a deposit appears on the custody platform
CustodyDeposit ==
  /\ Cardinality({d \in Deposits \cup {WX} : custody[d] # "ABSENT"}) < MaxDeposits
  /\ \E d \in Deposits :
       /\ custody[d] = "ABSENT"
       /\ custody' = [custody EXCEPT ![d] = "TRANSACTION_CREATED"]
  /\ UNCHANGED <<ledgerVars, recon, processedTxIds, now, ini, keys, life>>

\* deposits drawn by the shape of their transfer_to that exist on the custody
\* platform at the same time
MaxIdentified == 2

\* the deposits by the shape of their transfer_to: address only (D1),
\* identifier and address, neither; and the deposit and the withdrawal that
\* point at the inactive user
TransferToDeposits == IdentifiedDeposits \cup {D1, D10, WY}

\* a deposit of one of these shapes appears
CustodyIdentifiedDeposit ==
  /\ Cardinality({d \in TransferToDeposits : custody[d] # "ABSENT"}) < MaxIdentified
  /\ \E d \in TransferToDeposits :
       /\ custody[d] = "ABSENT"
       /\ custody' = [custody EXCEPT ![d] = "TRANSACTION_CREATED"]
  /\ UNCHANGED <<ledgerVars, recon, processedTxIds, now, ini, keys, life>>

\* a withdrawal made outside the initiator appears on the custody platform
CustodyForeignWithdrawal ==
  /\ Cardinality({d \in Deposits \cup {WX} : custody[d] # "ABSENT"}) < MaxDeposits
  /\ custody[WX] = "ABSENT"
  /\ custody' = [custody EXCEPT ![WX] = "TRANSACTION_CREATED"]
  /\ UNCHANGED <<ledgerVars, recon, processedTxIds, now, ini, keys, life>>

\* a custody transaction reaches its final status
CustodyFinalize ==
  /\ \E id \in CustodyIds :
       /\ custody[id] = "TRANSACTION_CREATED"
       /\ custody' = [custody EXCEPT ![id] = FinalStatus(id)]
  /\ UNCHANGED <<ledgerVars, recon, processedTxIds, now, ini, keys, life>>

\* ------------------------------------------------------------ reconciler

NotProcessed == 0 - 1
\* LISTENER_LOOKBACK_WINDOW in clock units
LookbackWindow == 1

\* page: the fetched transactions of the cycle; queue: those the loop has not
\* reached; ret: what the handler of the last handled transaction returned
ReconIdle == [pc |-> "idle", w |-> 0, page |-> <<>>, queue |-> <<>>, ret |-> "none"]

Skip == [do |-> "skip", args |-> NoCall]
Mark == [do |-> "mark", args |-> NoCall]
Fail_Abort == [do |-> "abort", args |-> NoCall]

Fail == [do |-> "error", args |-> NoCall]
Apply(c) == [do |-> "call", args |-> c]

\* decimal.Decimal.Neg (part_010:31, service.go:208)
Neg_Same(n) == n

Neg(n) == 0 - n

\* part_010:30-32: a negative reported amount is negated
Abs(n) == IF n < 0 THEN Neg(n) ELSE n

\* common.go:218-224
isTransactionProcessed(txId) == processedTxIds[txId] # NotProcessed

\* common.go:227-232
markTransactionProcessed(cache, txId) == [cache EXCEPT ![txId] = now]

\* time.Time.Before (common.go:259)
Before_OrEqual(t, cutoff) == t <= cutoff

Before(t, cutoff) == t < cutoff

\* common.go:252-271: entries marked before now - lookbackWindow are deleted
cleanupProcessedTransactions(cache) ==
  [id \in DOMAIN cache |->
     IF cache[id] # NotProcessed /\ Before(cache[id], now - LookbackWindow)
     THEN NotProcessed ELSE cache[id]]

NotFound == [err |-> TRUE, userId |-> EmptyStr]
Found(userId) == [err |-> FALSE, userId |-> userId]

\* common.go:293-302: the loop over the users GetUsers returned, first match wins
RECURSIVE FirstWithPrefix(_, _, _)
FirstWithPrefix(users, idempotencyPrefix, n) ==
  IF n > Len(users) THEN NotFound
  ELSE IF users[n][1] = idempotencyPrefix THEN Found(users[n])
  ELSE FirstWithPrefix(users, idempotencyPrefix, n + 1)

\* common.go:274-305 over the active users in the order GetUsers returns them
findUserByPrefixIn(users, idempotencyKey) ==
  IF idempotencyKey = EmptyStr THEN NotFound
  ELSE FirstWithPrefix(users, idempotencyKey[1], 1)

RECURSIVE ActiveFrom(_)
ActiveFrom(n) ==
  IF n > Len(UsersTable) THEN <<>>
  ELSE (IF IsActive(UsersTable[n].id) THEN <<UsersTable[n].id>> ELSE <<>>) \o ActiveFrom(n + 1)

\* users.go:11-35 GetUsers: the rows queryGetActiveUsers returns
ActiveUsers == ActiveFrom(1)

\* common.go:274-305: the users whose id's first segment is the key's first segment
findUserByIdempotencyKeyPrefix(idempotencyKey) ==
  LET r == findUserByPrefixIn(ActiveUsers, idempotencyKey)
  IN IF r.err THEN {} ELSE {r.userId}

\* deposit.go:16: only an imported deposit is handled
DepositStatusFinal_Any(status) == TRUE

DepositStatusFinal(status) == status = "TRANSACTION_IMPORTED"

\* processWithdrawal: only a withdrawal that is done is handled
WithdrawalStatusFinal(status) == status = "TRANSACTION_DONE"

\* decimal.Decimal.LessThanOrEqual(decimal.Zero), the amount test of the
\* listener (deposit.go:31) and of the ledger API (part_004:22)
LessThanOrEqualZero_Never(amount) == FALSE

LessThanOrEqualZero(amount) == amount <= 0

\* service.go:167: addr.Asset != asset
AssetMismatch_Never(addrAsset, asset) == FALSE

AssetMismatch(addrAsset, asset) == addrAsset # asset

\* part_004:21-32: LedgerService.ProcessDeposit returns "invalid deposit
\* parameters" without calling the store
ValidDepositParameters(address, asset, amount, externalTxId) ==
  ~(address = EmptyStr \/ asset = EmptyStr \/ LessThanOrEqualZero(amount)
    \/ externalTxId = EmptyStr)

\* deposit.go:38-50: the key of the address lookup
LookupAddress_AddressOnly(tx) == tx.address

LookupAddress(tx) ==
  IF tx.accountIdentifier # EmptyStr THEN tx.accountIdentifier ELSE tx.address

\* deposit.go:15-123 with LedgerService.ProcessDeposit and Service.ProcessDeposit,
\* up to the ProcessTransaction call
processDeposit(tx, wallet) ==
  IF ~DepositStatusFinal(tx.status) THEN Skip
  ELSE IF tx.amount.err THEN Fail
  ELSE IF LessThanOrEqualZero(tx.amount.value) THEN Skip
  ELSE LET lookup == LookupAddress(tx)
       IN IF lookup = EmptyStr THEN Skip
          ELSE IF ~ValidDepositParameters(lookup, wallet.AssetNetwork, tx.amount.value, tx.id)
          THEN Fail
          ELSE IF FindUserByAddress(lookup) = {} THEN Mark
          ELSE LET a == CHOOSE r \in FindUserByAddress(lookup) : TRUE
               IN IF AssetMismatch(a.asset, wallet.AssetNetwork) THEN Fail
                  ELSE Apply(NewCall(a.userId, wallet.AssetNetwork, "deposit",
                                     tx.amount.value, tx.id, lookup, EmptyStr))

\* the external id the reconciler hands to ProcessWithdrawal
WithdrawalExternalId(tx) == tx.id

\* processWithdrawal with LedgerService.ProcessWithdrawal and
\* Service.ProcessWithdrawal, up to the ProcessTransaction call
processWithdrawal(tx, wallet) ==
  IF ~WithdrawalStatusFinal(tx.status) THEN Skip
  ELSE IF tx.amount.err THEN Fail
  ELSE IF LessThanOrEqualZero(Abs(tx.amount.value)) THEN Skip
  ELSE IF findUserByIdempotencyKeyPrefix(tx.idempotencyKey) = {} THEN Skip
  ELSE LET userId == CHOOSE u \in findUserByIdempotencyKeyPrefix(tx.idempotencyKey) : TRUE
       IN Apply(NewCall(userId, wallet.AssetNetwork, "withdrawal",
                        Neg(Abs(tx.amount.value)), WithdrawalExternalId(tx), EmptyStr, EmptyStr))

\* classification by transaction type
Handle(tx, wallet) ==
  IF tx.type = "DEPOSIT" THEN processDeposit(tx, wallet) ELSE processWithdrawal(tx, wallet)

\* the page ListWalletTransactions returns: every existing custody transaction
CustodySeq ==
  <<D1, D2, D3, D4, D5, D6, WX>> \o [n \in 1..NumInitiators |-> WId(NumCallers + n)]
    \o <<D7, D8, D9, D10, WY>>

\* the wallet (index in MonitoredWallets) a custody transaction belongs to
WalletOf(id) == IF id = WX THEN 1 ELSE 2

RECURSIVE FetchFrom(_, _)
FetchFrom(k, n) ==
  IF n > Len(CustodySeq) THEN <<>>
  ELSE (IF custody[CustodySeq[n]] = "ABSENT" \/ WalletOf(CustodySeq[n]) # k THEN <<>>
        ELSE <<CustodyTx(CustodySeq[n], custody[CustodySeq[n]])>>) \o FetchFrom(k, n + 1)

\* common.go:165-215
fetchWalletTransactions(k) == FetchFrom(k, 1)

\* the wallet whose fetch comes next: the first at a poll tick, the following
\* one when the transactions of the current wallet are all handled
NextWalletDue ==
  \/ recon.pc = "idle"
  \/ recon.pc = "dispatch" /\ recon.queue = <<>> /\ recon.w < Len(MonitoredWallets)

\* the next wallet's transactions are fetched
PollWallet ==
  /\ NextWalletDue
  /\ recon' = [pc |-> "dispatch", w |-> recon.w + 1,
               page |-> fetchWalletTransactions(recon.w + 1),
               queue |-> fetchWalletTransactions(recon.w + 1), ret |-> "none"]
  /\ UNCHANGED <<ledgerVars, custody, processedTxIds, now, ini, keys, life>>

\* common.go:171-174: ListWalletTransactions fails; the loop logs the error
\* and goes on with the next wallet
FetchFails ==
  /\ NextWalletDue
  /\ recon' = [pc |-> "dispatch", w |-> recon.w + 1,
               page |-> <<>>, queue |-> <<>>, ret |-> "fetch_error"]
  /\ UNCHANGED <<ledgerVars, custody, processedTxIds, now, ini, keys, life>>

\* the next fetched transaction: cache test, handler up to the ledger call
Dispatch ==
  /\ recon.pc = "dispatch"
  /\ IF recon.queue = <<>>
     THEN /\ recon.w = Len(MonitoredWallets)
          /\ recon' = ReconIdle
          /\ UNCHANGED <<call, processedTxIds>>
     ELSE LET tx == Head(recon.queue)
              d == Handle(tx, MonitoredWallets[recon.w])
          IN IF isTransactionProcessed(tx.id)
             THEN /\ recon' = [recon EXCEPT !.queue = Tail(@), !.ret = "none"]
                  /\ UNCHANGED <<call, processedTxIds>>
             ELSE \/ /\ d.do = "call"
                     /\ call' = [call EXCEPT ![Recon] = d.args]
                     /\ recon' = [recon EXCEPT !.pc = "ledger", !.ret = "none"]
                     /\ UNCHANGED processedTxIds
                  \/ /\ d.do = "mark"
                     /\ processedTxIds' = markTransactionProcessed(processedTxIds, tx.id)
                     /\ recon' = [recon EXCEPT !.queue = Tail(@), !.ret = "nil"]
                     /\ UNCHANGED call
                  \/ /\ d.do = "skip"
                     /\ recon' = [recon EXCEPT !.queue = Tail(@), !.ret = "nil"]
                     /\ UNCHANGED <<call, processedTxIds>>
                  \/ /\ d.do = "error"
                     /\ recon' = [recon EXCEPT !.queue = Tail(@), !.ret = "error"]
                     /\ UNCHANGED <<call, processedTxIds>>
                  \/ \* the handler's lookup query fails: not marked; the deposit
                     \* handler returns the error, the withdrawal handler nil
                     /\ d.do \in {"call", "mark"}
                     /\ recon' = [recon EXCEPT !.queue = Tail(@),
                                                !.ret = IF tx.type = "DEPOSIT" THEN "error" ELSE "nil"]
                     /\ UNCHANGED <<call, processedTxIds>>
  /\ UNCHANGED <<db, writer, wtx, custody, now, ini, keys, life>>

\* strings.Contains(text, "duplicate transaction") on the error text of a result
ContainsDuplicateTransaction_Never(result) == FALSE

ContainsDuplicateTransaction(result) == result \in {"duplicate", "duplicate_check_failed"}

\* the handler after ProcessTransaction returned
AfterLedger ==
  /\ recon.pc = "ledger"
  /\ call[Recon].pc = "done"
  /\ LET tx == Head(recon.queue)
     IN \/ /\ call[Recon].result = "committed" \/ ContainsDuplicateTransaction(call[Recon].result)
           /\ processedTxIds' = markTransactionProcessed(processedTxIds, tx.id)
           /\ recon' = [recon EXCEPT !.pc = "dispatch", !.queue = Tail(@), !.ret = "nil"]
        \/ \* the lookup after the commit fails: Success false, not marked
           /\ call[Recon].result = "committed"
           /\ UNCHANGED processedTxIds
           /\ recon' = [recon EXCEPT !.pc = "dispatch", !.queue = Tail(@), !.ret = "error"]
        \/ /\ call[Recon].result # "committed"
           /\ ~ContainsDuplicateTransaction(call[Recon].result)
           /\ UNCHANGED processedTxIds
           /\ recon' = [recon EXCEPT !.pc = "dispatch", !.queue = Tail(@), !.ret = "error"]
  /\ call' = [call EXCEPT ![Recon] = NoCall]
  /\ UNCHANGED <<db, writer, wtx, custody, now, ini, keys, life>>

\* cleanup tick
Cleanup ==
  /\ processedTxIds' = cleanupProcessedTransactions(processedTxIds)
  /\ processedTxIds' # processedTxIds
  /\ UNCHANGED <<ledgerVars, custody, recon, now, ini, keys, life>>

Tick ==
  /\ now < MaxTime
  /\ now' = now + 1
  /\ UNCHANGED <<ledgerVars, custody, recon, processedTxIds, ini, keys, life>>

\* the reconciler process dies and is started again: the open transaction is
\* rolled back by the store, the cache starts empty
Restart ==
  /\ recon # ReconIdle \/ \E id \in CustodyIds : isTransactionProcessed(id)
  /\ recon' = ReconIdle
  /\ processedTxIds' = [id \in CustodyIds |-> NotProcessed]
  /\ call' = [call EXCEPT ![Recon] = NoCall]
  /\ writer' = IF writer = Recon THEN 0 ELSE writer
  /\ wtx' = IF writer = Recon THEN EmptyStore ELSE wtx
  /\ UNCHANGED <<db, custody, now, ini, keys, life>>

\* ------------------------------------------------------------ withdrawal initiator

IniStart == [pc |-> "start", outcome |-> "none"]
IniDone(o) == [pc |-> "done", outcome |-> o]

\* main.go:80-86: the ledger key of the run is the symbol part of --asset
IniSymbol == SYM

\* main.go:88-115: GetUserBalance and the funds test
InsufficientBalance_Never(currentBalance, amount) == FALSE

\* main.go:108: currentBalance.LessThan(amount)
InsufficientBalance(currentBalance, amount) == currentBalance < amount

InitiatorCheckBalance(i) ==
  /\ ini[i].pc = "start"
  /\ \/ IF InsufficientBalance(GetBalance(db, U1, IniSymbol), WithdrawAmount)
        THEN ini' = [ini EXCEPT ![i] = IniDone("insufficient_funds")]
        ELSE ini' = [ini EXCEPT ![i].pc = "checked"]
     \/ \* main.go:95-100: GetUserBalance fails
        ini' = [ini EXCEPT ![i] = IniDone("balance_error")]
  /\ UNCHANGED <<ledgerVars, custody, recon, processedTxIds, now, keys, life>>

\* Service.ProcessWithdrawal: ProcessTransaction(user, asset, "withdrawal", -amount, txId, "", "")
ProcessWithdrawalCall(userId, asset, amount, transactionId) ==
  NewCall(userId, asset, "withdrawal", Neg(amount), transactionId, EmptyStr, EmptyStr)

\* main.go:163-226: key minted, history searched for the key, local debit started
InitiatorPreDebit(i) ==
  /\ ini[i].pc = "checked"
  /\ IF \E n \in RowsWithExt(db.transactions, IdemKey(i)) :
          /\ db.transactions[n].type = "withdrawal"
          /\ <<db.transactions[n].userId, db.transactions[n].asset>> = <<U1, IniSymbol>>
     THEN /\ ini' = [ini EXCEPT ![i] = IniDone("already_processed")]
          /\ UNCHANGED call
     ELSE /\ ini' = [ini EXCEPT ![i].pc = "predebit"]
          /\ call' = [call EXCEPT ![i] =
                        ProcessWithdrawalCall(U1, IniSymbol, WithdrawAmount, IdemKey(i))]
  /\ UNCHANGED <<db, writer, wtx, custody, recon, processedTxIds, now, keys, life>>

\* main.go:212: err == nil after ProcessWithdrawal
PreDebitSucceeded_Always(result) == TRUE

PreDebitSucceeded(result) == result = "committed"

\* main.go:211-232: the outcome of the local debit
InitiatorAfterPreDebit(i) ==
  /\ ini[i].pc = "predebit"
  /\ call[i].pc = "done"
  /\ ini' = [ini EXCEPT ![i] =
               IF PreDebitSucceeded(call[i].result) THEN [pc |-> "submit", outcome |-> "none"]
               ELSE IniDone(call[i].result)]
  /\ call' = [call EXCEPT ![i] = NoCall]
  /\ UNCHANGED <<db, writer, wtx, custody, recon, processedTxIds, now, keys, life>>

\* the external id of the compensating row
ReversalExternalId(originalTxId) == <<"rev:" \o originalTxId[1]>> \o Tail(originalTxId)

\* Service.ReverseWithdrawal(userId, asset, amount, originalTxId)
ReverseWithdrawalCall(userId, asset, amount, originalTxId) ==
  NewCall(userId, asset, "deposit", amount, ReversalExternalId(originalTxId),
          EmptyStr, originalTxId)

\* the key the initiator hands to ReverseWithdrawal
RollbackKey_Fresh(i) == FreshUuid(i)

RollbackKey(i) == IdemKey(i)

\* main.go:239-272: CreateWithdrawal; on its failure the local debit is reversed
InitiatorSubmit(i) ==
  /\ ini[i].pc = "submit"
  /\ \/ /\ custody' = [custody EXCEPT ![WId(i)] = "TRANSACTION_CREATED"]
        /\ ini' = [ini EXCEPT ![i] = IniDone("success")]
        /\ UNCHANGED call
     \/ /\ ini' = [ini EXCEPT ![i].pc = "reverse"]
        /\ call' = [call EXCEPT ![i] =
                      ReverseWithdrawalCall(U1, IniSymbol, WithdrawAmount, RollbackKey(i))]
        /\ UNCHANGED custody
  /\ UNCHANGED <<db, writer, wtx, recon, processedTxIds, now, keys, life>>

\* main.go:259-272: the outcome of the reversal
InitiatorAfterReverse(i) ==
  /\ ini[i].pc = "reverse"
  /\ call[i].pc = "done"
  /\ ini' = [ini EXCEPT ![i] =
               IniDone(IF call[i].result = "committed" THEN "rolled_back" ELSE "critical")]
  /\ call' = [call EXCEPT ![i] = NoCall]
  /\ UNCHANGED <<db, writer, wtx, custody, recon, processedTxIds, now, keys, life>>

\* withdrawals.go:106-120: a failed withdrawal is credited back through the API
\* with the key of the run as the original transaction id
CreditBackFailedWithdrawal(i) ==
  /\ ini[i].pc = "done"
  /\ ini[i].outcome \in {"rolled_back", "critical"}
  /\ ini' = [ini EXCEPT ![i] = [pc |-> "creditback", outcome |-> @.outcome]]
  /\ call' = [call EXCEPT ![i] =
                ReverseWithdrawalCall(U1, IniSymbol, WithdrawAmount, IdemKey(i))]
  /\ UNCHANGED <<db, writer, wtx, custody, recon, processedTxIds, now, keys, life>>

\* withdrawals.go:121-166: the DepositResult of the credit-back
AfterCreditBack(i) ==
  /\ ini[i].pc = "creditback"
  /\ call[i].pc = "done"
  /\ ini' = [ini EXCEPT ![i] =
               IniDone(IF call[i].result = "committed" THEN "credited_back"
                       ELSE IF call[i].result = "duplicate" THEN "creditback_duplicate"
                       ELSE "creditback_failed")]
  /\ call' = [call EXCEPT ![i] = NoCall]
  /\ UNCHANGED <<db, writer, wtx, custody, recon, processedTxIds, now, keys, life>>

\* ------------------------------------------------------------ listener lifecycle

\* clock ticks of the shutdown deadline (30 s)
ShutdownDeadline == 2

\* NewSendReceiveListener and main up to the wait for a signal: both loops run
LifeStart == [main |-> "running", stop |-> "none", stopChan |-> "open", doneChan |-> "open",
              ctx |-> "live", poll |-> "select", left |-> 0, cleanup |-> "select", elapsed |-> 0]

\* the process exists until main returns
Alive == life.main \in {"running", "shutdown"}

\* common.go:243-246: a select case <-d.stopChan or <-ctx.Done() is ready
Stopped_Never(l) == FALSE

Stopped(l) == l.stopChan = "closed" \/ l.ctx = "cancelled"

lifeFrame == <<ledgerVars, custody, recon, processedTxIds, now, ini, keys>>

\* main.go:463-473: the signal arrives, the deadline starts, Stop is launched
ListenerSignal ==
  /\ life.main = "running"
  /\ life' = [life EXCEPT !.main = "shutdown", !.stop = "started"]
  /\ UNCHANGED lifeFrame

\* Stop closes the stop channel
StopCloses ==
  /\ Alive
  /\ life.stop = "started"
  /\ life' = [life EXCEPT !.stopChan = "closed", !.stop = "waiting"]
  /\ UNCHANGED lifeFrame

\* Stop returns when the poll loop has closed the done channel
StopReturns ==
  /\ Alive
  /\ life.stop = "waiting"
  /\ life.doneChan = "closed"
  /\ life' = [life EXCEPT !.stop = "returned"]
  /\ UNCHANGED lifeFrame

\* main.go:475-477 and 430: case <-done, then the deferred cancel
MainGraceful ==
  /\ life.main = "shutdown"
  /\ life.stop = "returned"
  /\ life' = [life EXCEPT !.main = "graceful", !.ctx = "cancelled"]
  /\ UNCHANGED lifeFrame

\* the shutdown deadline runs
ShutdownClock ==
  /\ life.main = "shutdown"
  /\ life.elapsed < ShutdownDeadline
  /\ life' = [life EXCEPT !.elapsed = @ + 1]
  /\ UNCHANGED lifeFrame

\* main.go:478-480: case <-shutdownCtx.Done()
MainForced ==
  /\ life.main = "shutdown"
  /\ life.elapsed = ShutdownDeadline
  /\ life' = [life EXCEPT !.main = "forced", !.ctx = "cancelled"]
  /\ UNCHANGED lifeFrame

\* the poll ticker fires: a cycle over the monitored wallets starts
PollTicks ==
  /\ Alive
  /\ life.poll = "select"
  /\ life' = [life EXCEPT !.poll = "cycle", !.left = Len(MonitoredWallets)]
  /\ UNCHANGED lifeFrame

\* one wallet of the cycle is fetched and its transactions handled
PollWalletDone ==
  /\ Alive
  /\ life.poll = "cycle"
  /\ life.left > 0
  /\ ~Stopped(life)
  /\ life' = [life EXCEPT !.left = @ - 1]
  /\ UNCHANGED lifeFrame

PollCycleEnds ==
  /\ Alive
  /\ life.poll = "cycle"
  /\ life.left = 0
  /\ life' = [life EXCEPT !.poll = "select"]
  /\ UNCHANGED lifeFrame

\* the poll loop sees the stop signal at the ticker or before a wallet's
\* fetch, returns and closes the done channel
PollExits ==
  /\ Alive
  /\ life.poll = "select" \/ (life.poll = "cycle" /\ life.left > 0)
  /\ Stopped(life)
  /\ life' = [life EXCEPT !.poll = "exited", !.left = 0, !.doneChan = "closed"]
  /\ UNCHANGED lifeFrame

\* common.go:241-242: case <-ticker.C
CleanupTicks ==
  /\ Alive
  /\ life.cleanup = "select"
  /\ life' = [life EXCEPT !.cleanup = "sweeping"]
  /\ UNCHANGED lifeFrame

\* cleanupProcessedTransactions returns
CleanupSwept ==
  /\ Alive
  /\ life.cleanup = "sweeping"
  /\ life' = [life EXCEPT !.cleanup = "select"]
  /\ UNCHANGED lifeFrame

\* common.go:243-246: case <-d.stopChan, case <-ctx.Done(): return
CleanupExits ==
  /\ Alive
  /\ life.cleanup = "select"
  /\ Stopped(life)
  /\ life' = [life EXCEPT !.cleanup = "exited"]
  /\ UNCHANGED lifeFrame

NextLifecycle ==
  \/ ListenerSignal
  \/ StopCloses
  \/ StopReturns
  \/ MainGraceful
  \/ ShutdownClock
  \/ MainForced
  \/ PollTicks
  \/ PollWalletDone
  \/ PollCycleEnds
  \/ PollExits
  \/ CleanupTicks
  \/ CleanupSwept
  \/ CleanupExits

\* the goroutines of the listener process are scheduled, every started
\* operation of a loop returns, and a select whose stop case is ready again
\* and again takes it; the deadline is not required to expire
LifecycleFairness ==
  /\ WF_vars(StopCloses)
  /\ WF_vars(StopReturns)
  /\ WF_vars(MainGraceful)
  /\ WF_vars(PollWalletDone)
  /\ WF_vars(PollCycleEnds)
  /\ WF_vars(CleanupSwept)
  /\ SF_vars(PollExits)
  /\ SF_vars(CleanupExits)

\* ------------------------------------------------------------ idempotency keys

\* users in a table
MaxUsers == 3

\* user ids: with and without a second segment, with an empty first segment
UserIds == {U1, U2, <<"aaaa", "0003">>, <<"bbbb">>, EmptyStr}
Uuids == {<<"f1", "r1">>, <<"bbbb", "r2">>}
KeyInputs == {EmptyStr, <<"aaaa", "r1">>, <<"cccc", "r1">>, <<"", "r1">>, <<"bbbb">>}

Range(f) == {f[n] : n \in DOMAIN f}
UserTables ==
  {t \in UNION {[1..n -> UserIds] : n \in 0..MaxUsers} : Cardinality(Range(t)) = Len(t)}

KeysIdle == [pc |-> "idle", users |-> <<>>, user |-> EmptyStr, uuid |-> EmptyStr,
             key |-> EmptyStr, minted |-> FALSE, found |-> NotFound]

\* main.go:161-165: the key is minted for the run's user
MintIdempotencyKey ==
  /\ keys.pc = "start"
  /\ keys' = [keys EXCEPT !.pc = "key", !.key = MintKey(keys.user, keys.uuid), !.minted = TRUE]
  /\ UNCHANGED <<ledgerVars, custody, recon, processedTxIds, now, ini, life>>

\* a custody withdrawal carries a key that no run of this system minted
ForeignIdempotencyKey ==
  /\ keys.pc = "start"
  /\ \E k \in KeyInputs : keys' = [keys EXCEPT !.pc = "key", !.key = k]
  /\ UNCHANGED <<ledgerVars, custody, recon, processedTxIds, now, ini, life>>

\* part_010: the withdrawal handler resolves the key of a custody withdrawal
ResolveIdempotencyKey ==
  /\ keys.pc = "key"
  /\ keys' = [keys EXCEPT !.pc = "resolved", !.found = findUserByPrefixIn(keys.users, keys.key)]
  /\ UNCHANGED <<ledgerVars, custody, recon, processedTxIds, now, ini, life>>

InitKeys ==
  /\ db = EmptyStore
  /\ writer = 0
  /\ wtx = EmptyStore
  /\ call = [p \in Procs |-> NoCall]
  /\ custody = [id \in CustodyIds |-> "ABSENT"]
  /\ recon = ReconIdle
  /\ processedTxIds = [id \in CustodyIds |-> NotProcessed]
  /\ now = 0
  /\ ini = [i \in Initiators |-> IniStart]
  /\ life = LifeStart
  /\ \E t \in UserTables, u \in UserIds, id \in Uuids :
       keys = [KeysIdle EXCEPT !.pc = "start", !.users = t, !.user = u, !.uuid = id]

NextKeys ==
  \/ MintIdempotencyKey
  \/ ForeignIdempotencyKey
  \/ ResolveIdempotencyKey

\* key minting and resolution over every small user table
SpecKeys == InitKeys /\ [][NextKeys]_vars

\* ------------------------------------------------------------ asset keys
\* The ledger key ("asset") each path hands to the store, computed from the
\* deployment's data as the code computes it.

Networks == {<<"mainnet">>, EmptyStr}
AssetFlags == {SYMNET, SYM}

\* deposit.go:184-185, part_009:148-149: Sprintf("%s-%s", Symbol, Network)
\* followed by TrimSuffix(.., "-")
AssetNetworkOf(symbol, network) ==
  IF network = EmptyStr THEN symbol ELSE symbol \o network

\* main.go:80-86: SplitN(flag, "-", 2); anything but two parts is fatal
SplitAssetFlag(flag) ==
  IF Len(flag) < 2
  THEN [ok |-> FALSE, symbol |-> EmptyStr, network |-> EmptyStr]
  ELSE [ok |-> TRUE, symbol |-> <<flag[1]>>, network |-> SubSeq(flag, 2, Len(flag))]

KeyUnset == [state |-> "unset", key |-> EmptyStr]
KeyRejected(k) == [state |-> "rejected", key |-> k]
KeyUsed(k) == [state |-> "used", key |-> k]

\* service.go:167-174: the deposit is credited under the key it was handed
\* only when the stored address carries the same asset
CreditUnder(addrAsset, asset) ==
  IF AssetMismatch(addrAsset, asset) THEN KeyRejected(asset) ELSE KeyUsed(asset)

AssetsIdle == [pc |-> "assets", addrAsset |-> SYM, wallet |-> SYM, symbol |-> SYM,
               network |-> EmptyStr, flag |-> SYMNET,
               credit |-> KeyUnset, debit |-> KeyUnset, check |-> KeyUnset]

\* deposit.go:70: the listener hands wallet.AssetNetwork to ProcessDeposit
DepositKeyFromWallet ==
  /\ keys.pc = "assets"
  /\ keys.credit = KeyUnset
  /\ keys' = [keys EXCEPT !.credit = CreditUnder(keys.addrAsset, keys.wallet)]
  /\ UNCHANGED <<ledgerVars, custody, recon, processedTxIds, now, ini, life>>

\* deposit.go:184-199: the listener hands SYMBOL-network of the transaction
DepositKeyFromTx ==
  /\ keys.pc = "assets"
  /\ keys.credit = KeyUnset
  /\ keys' = [keys EXCEPT !.credit =
                CreditUnder(keys.addrAsset, AssetNetworkOf(keys.symbol, keys.network))]
  /\ UNCHANGED <<ledgerVars, custody, recon, processedTxIds, now, ini, life>>

\* part_010:61: the withdrawal is debited under wallet.AssetNetwork
WithdrawalKeyFromWallet ==
  /\ keys.pc = "assets"
  /\ keys.debit = KeyUnset
  /\ keys' = [keys EXCEPT !.debit = KeyUsed(keys.wallet)]
  /\ UNCHANGED <<ledgerVars, custody, recon, processedTxIds, now, ini, life>>

\* part_009:162-163: the withdrawal is debited under tx.Symbol alone
WithdrawalKeyFromTx ==
  /\ keys.pc = "assets"
  /\ keys.debit = KeyUnset
  /\ keys' = [keys EXCEPT !.debit = KeyUsed(keys.symbol)]
  /\ UNCHANGED <<ledgerVars, custody, recon, processedTxIds, now, ini, life>>

\* main.go:80-94: the funds check (and the pre-debit, main.go:211) use the
\* flag's first part; a flag without "-" ends the run
InitiatorAssetKey ==
  /\ keys.pc = "assets"
  /\ keys.check = KeyUnset
  /\ LET parts == SplitAssetFlag(keys.flag)
     IN keys' = [keys EXCEPT !.check =
                   IF parts.ok THEN KeyUsed(parts.symbol) ELSE KeyRejected(keys.flag)]
  /\ UNCHANGED <<ledgerVars, custody, recon, processedTxIds, now, ini, life>>

InitAssets ==
  /\ db = EmptyStore
  /\ writer = 0
  /\ wtx = EmptyStore
  /\ call = [p \in Procs |-> NoCall]
  /\ custody = [id \in CustodyIds |-> "ABSENT"]
  /\ recon = ReconIdle
  /\ processedTxIds = [id \in CustodyIds |-> NotProcessed]
  /\ now = 0
  /\ ini = [i \in Initiators |-> IniStart]
  /\ life = LifeStart
  /\ \E a \in AssetKeys, w \in AssetKeys, n \in Networks, f \in AssetFlags :
       keys = [AssetsIdle EXCEPT !.addrAsset = a, !.wallet = w, !.network = n, !.flag = f]

NextAssets ==
  \/ DepositKeyFromWallet
  \/ DepositKeyFromTx
  \/ WithdrawalKeyFromWallet
  \/ WithdrawalKeyFromTx
  \/ InitiatorAssetKey

\* the asset keys of the three paths over every small deployment
SpecAssets == InitAssets /\ [][NextAssets]_vars

\* ------------------------------------------------------------ specifications

Init ==
  /\ db = EmptyStore
  /\ writer = 0
  /\ wtx = EmptyStore
  /\ call = [p \in Procs |-> NoCall]
  /\ custody = [id \in CustodyIds |-> "ABSENT"]
  /\ recon = ReconIdle
  /\ processedTxIds = [id \in CustodyIds |-> NotProcessed]
  /\ now = 0
  /\ ini = [i \in Initiators |-> IniStart]
  /\ life = LifeStart
  /\ keys = KeysIdle

\* concurrent direct callers of ProcessTransaction
LedgerCall == \E p \in Callers : CallProcessTransaction(p) /\ UNCHANGED systemVars
LedgerCheckDuplicate == \E p \in Callers : CheckDuplicate(p) /\ UNCHANGED systemVars
LedgerGetAccountBalance == \E p \in Callers : GetAccountBalance(p) /\ UNCHANGED systemVars
LedgerInsertAccountBalance == \E p \in Callers : InsertAccountBalance(p) /\ UNCHANGED systemVars
LedgerInsertTransaction == \E p \in Callers : InsertTransaction(p) /\ UNCHANGED systemVars
LedgerUpdateAccountBalance == \E p \in Callers : UpdateAccountBalance(p) /\ UNCHANGED systemVars
LedgerAddJournalEntries == \E p \in Callers : addJournalEntries(p) /\ UNCHANGED systemVars
LedgerCommit == \E p \in Callers : Commit(p) /\ UNCHANGED systemVars
LedgerStoreError == \E p \in Callers : StoreError(p) /\ UNCHANGED systemVars

Next ==
  \/ LedgerCall
  \/ LedgerCheckDuplicate
  \/ LedgerGetAccountBalance
  \/ LedgerInsertAccountBalance
  \/ LedgerInsertTransaction
  \/ LedgerUpdateAccountBalance
  \/ LedgerAddJournalEntries
  \/ LedgerCommit
  \/ LedgerStoreError

Spec == Init /\ [][Next]_vars

\* the direct callers when no statement fails on its own: the only failure of
\* the store is a write refused because another call holds the write lock
NextCrossKey ==
  \/ LedgerCall
  \/ LedgerCheckDuplicate
  \/ LedgerGetAccountBalance
  \/ LedgerInsertAccountBalance
  \/ LedgerInsertTransaction
  \/ LedgerUpdateAccountBalance
  \/ LedgerAddJournalEntries
  \/ LedgerCommit
  \/ \E p \in Callers : DatabaseLocked(p) /\ UNCHANGED systemVars

SpecCrossKey == Init /\ [][NextCrossKey]_vars

\* custody platform, reconciler and initiator runs against the one store
SysProcs == Initiators \cup {Recon}

SysCheckDuplicate == \E p \in SysProcs : CheckDuplicate(p) /\ UNCHANGED systemVars
SysGetAccountBalance == \E p \in SysProcs : GetAccountBalance(p) /\ UNCHANGED systemVars
SysInsertAccountBalance == \E p \in SysProcs : InsertAccountBalance(p) /\ UNCHANGED systemVars
SysInsertTransaction == \E p \in SysProcs : InsertTransaction(p) /\ UNCHANGED systemVars
SysUpdateAccountBalance == \E p \in SysProcs : UpdateAccountBalance(p) /\ UNCHANGED systemVars
SysAddJournalEntries == \E p \in SysProcs : addJournalEntries(p) /\ UNCHANGED systemVars
SysCommit == \E p \in SysProcs : Commit(p) /\ UNCHANGED systemVars
SysStoreError == \E p \in SysProcs : StoreError(p) /\ UNCHANGED systemVars
SysCheckBalance == \E i \in Initiators : InitiatorCheckBalance(i)
SysPreDebit == \E i \in Initiators : InitiatorPreDebit(i)
SysAfterPreDebit == \E i \in Initiators : InitiatorAfterPreDebit(i)
SysSubmit == \E i \in Initiators : InitiatorSubmit(i)
SysAfterReverse == \E i \in Initiators : InitiatorAfterReverse(i)
SysCreditBack == \E i \in Initiators : CreditBackFailedWithdrawal(i)
SysAfterCreditBack == \E i \in Initiators : AfterCreditBack(i)

NextSystem ==
  \/ CustodyDeposit
  \/ CustodyForeignWithdrawal
  \/ CustodyFinalize
  \/ PollWallet
  \/ FetchFails
  \/ Dispatch
  \/ AfterLedger
  \/ Cleanup
  \/ Tick
  \/ Restart
  \/ SysCheckBalance
  \/ SysPreDebit
  \/ SysAfterPreDebit
  \/ SysSubmit
  \/ SysAfterReverse
  \/ SysCreditBack
  \/ SysAfterCreditBack
  \/ SysCheckDuplicate
  \/ SysGetAccountBalance
  \/ SysInsertAccountBalance
  \/ SysInsertTransaction
  \/ SysUpdateAccountBalance
  \/ SysAddJournalEntries
  \/ SysCommit
  \/ SysStoreError

SpecSystem == Init /\ [][NextSystem]_vars

\* the poll loop keeps running: a cycle starts, every fetched transaction is
\* dispatched, every ledger call of the reconciler returns to its handler, and
\* the process is not restarted for ever
PollLoopFairness ==
  /\ SF_vars(PollWallet \/ FetchFails)
  /\ SF_vars(Dispatch)
  /\ SF_vars(AfterLedger)
  /\ <>[][~Restart]_vars

\* failures are transient: the fetch of each wallet, a lookup of the handler
\* and each statement of the reconciler's ProcessTransaction succeed again and
\* again when tried again and again
TransientFailures ==
  /\ \A k \in 1..Len(MonitoredWallets) : SF_vars(PollWallet /\ recon'.w = k)
  /\ SF_vars(Dispatch /\ recon'.pc = "ledger")
  /\ SF_vars(CheckDuplicate(Recon) /\ UNCHANGED systemVars)
  /\ SF_vars(GetAccountBalance(Recon) /\ UNCHANGED systemVars)
  /\ SF_vars(InsertAccountBalance(Recon) /\ UNCHANGED systemVars)
  /\ SF_vars(InsertTransaction(Recon) /\ UNCHANGED systemVars)
  /\ SF_vars(UpdateAccountBalance(Recon) /\ UNCHANGED systemVars)
  /\ SF_vars(addJournalEntries(Recon) /\ UNCHANGED systemVars)
  /\ SF_vars(Commit(Recon) /\ UNCHANGED systemVars)

\* an initiator run that holds the write lock goes on to its commit or rollback
InitiatorStep(i) ==
  \/ CheckDuplicate(i) \/ GetAccountBalance(i) \/ InsertAccountBalance(i)
  \/ InsertTransaction(i) \/ UpdateAccountBalance(i) \/ addJournalEntries(i) \/ Commit(i)

InitiatorProgress == WF_vars(\E i \in Initiators : InitiatorStep(i) /\ UNCHANGED systemVars)

\* the custody platform and the listener alone: no initiator run is started
NextListener ==
  \/ CustodyDeposit
  \/ CustodyForeignWithdrawal
  \/ CustodyFinalize
  \/ PollWallet
  \/ FetchFails
  \/ Dispatch
  \/ AfterLedger
  \/ Cleanup
  \/ Tick
  \/ Restart
  \/ SysCheckDuplicate
  \/ SysGetAccountBalance
  \/ SysInsertAccountBalance
  \/ SysInsertTransaction
  \/ SysUpdateAccountBalance
  \/ SysAddJournalEntries
  \/ SysCommit
  \/ SysStoreError

SpecListener == Init /\ [][NextListener]_vars

\* the listener alone, when the deposits that arrive are those with an account
\* identifier or with an empty transfer_to
NextAttribution ==
  \/ CustodyIdentifiedDeposit
  \/ CustodyFinalize
  \/ PollWallet
  \/ FetchFails
  \/ Dispatch
  \/ AfterLedger
  \/ Cleanup
  \/ Tick
  \/ Restart
  \/ SysCheckDuplicate
  \/ SysGetAccountBalance
  \/ SysInsertAccountBalance
  \/ SysInsertTransaction
  \/ SysUpdateAccountBalance
  \/ SysAddJournalEntries
  \/ SysCommit
  \/ SysStoreError

SpecAttribution == Init /\ [][NextAttribution]_vars

\* the listener under fair scheduling of the poll loop; each of its behaviours
\* is a behaviour of SpecSystem in which the initiators stay idle, and
\* InitiatorProgress asks nothing of an initiator that was never started
SpecSystemFair == SpecListener /\ PollLoopFairness /\ TransientFailures /\ InitiatorProgress

\* ReconcileBalance by one caller beside two callers of ProcessTransaction
Auditor == NumCallers
Writers == Callers \ {Auditor}

NextReconcile ==
  \/ \E p \in Writers : CallProcessTransaction(p) /\ UNCHANGED systemVars
  \/ \E p \in Writers : CheckDuplicate(p) /\ UNCHANGED systemVars
  \/ \E p \in Writers : GetAccountBalance(p) /\ UNCHANGED systemVars
  \/ \E p \in Writers : InsertAccountBalance(p) /\ UNCHANGED systemVars
  \/ \E p \in Writers : InsertTransaction(p) /\ UNCHANGED systemVars
  \/ \E p \in Writers : UpdateAccountBalance(p) /\ UNCHANGED systemVars
  \/ \E p \in Writers : addJournalEntries(p) /\ UNCHANGED systemVars
  \/ \E p \in Writers : Commit(p) /\ UNCHANGED systemVars
  \/ \E p \in Writers : StoreError(p) /\ UNCHANGED systemVars
  \/ ReconcileGetBalance(Auditor) /\ UNCHANGED systemVars
  \/ ReconcileSum(Auditor) /\ UNCHANGED systemVars
  \/ ReconcileQueryFails(Auditor) /\ UNCHANGED systemVars

SpecReconcile == Init /\ [][NextReconcile]_vars

\* the listener process from start to the end of main
SpecLifecycle == Init /\ [][NextLifecycle]_vars

SpecLifecycleFair == SpecLifecycle /\ LifecycleFairness

\* ------------------------------------------------------------ properties of the ledger

Failures == {"duplicate", "duplicate_check_failed", "concurrent_modification", "store_error"}

\* the step is one of p's ProcessTransaction call
StepOf(p) == call'[p] # call[p]

\* C1: in every state, for every (user, asset), the stored balance (zero when
\* there is no row) equals the signed sum of the amounts of the key's confirmed
\* Transaction rows.
C1_BalanceIsConfirmedSum ==
  \A k \in Keys : GetBalance(db, k[1], k[2]) = ConfirmedSum(db, k)

\* a deposit and a withdrawal are committed on one key beside a failed call
C1_Witness ==
  /\ C1_BalanceIsConfirmedSum
  /\ \E p, q, r \in Callers :
       /\ call[p].result = "committed" /\ call[p].type = "deposit"
       /\ call[q].result = "committed" /\ call[q].type = "withdrawal"
       /\ CallKey(call[p]) = CallKey(call[q])
       /\ call[r].result \in Failures
       /\ GetBalance(db, call[p].userId, call[p].asset) = 1

\* C3: a call whose duplicate check runs when a row with its non-empty external
\* id is committed ends there, leaves the store as it is and reports duplicate
\* (or the error of the check's query, when that query fails).
C3_SequentialDuplicateRejected ==
  [][\A p \in Callers :
       (/\ call[p].pc = "dupcheck"
        /\ StepOf(p)
        /\ call[p].ext # EmptyStr
        /\ RowsWithExt(db.transactions, call[p].ext) # {})
       => /\ call'[p].pc = "done"
          /\ call'[p].result \in {"duplicate", "duplicate_check_failed"}
          /\ db' = db]_vars

\* a second call with the external id of a committed first call ended duplicate
C3_Witness ==
  \E p, q \in Callers :
    /\ p # q
    /\ call[p].ext # EmptyStr
    /\ call[q].ext = call[p].ext
    /\ call[p].result = "committed"
    /\ call[q].result = "duplicate"
    /\ Cardinality(RowsWithExt(db.transactions, call[p].ext)) = 1
    /\ Len(db.transactions) = 1

\* C4: under any interleaving of concurrent calls, no two committed Transaction
\* rows carry the same non-empty external id.
C4_UniqueExternalId ==
  \A m, n \in 1..Len(db.transactions) :
    (m # n /\ db.transactions[m].ext # EmptyStr)
    => db.transactions[m].ext # db.transactions[n].ext

\* p has read the balance row of its key (version 1: there was no row)
HasRead(p) == call[p].version # 0

SameSerialStep(p, q) ==
  /\ p # q
  /\ HasRead(p) /\ HasRead(q)
  /\ CallKey(call[p]) = CallKey(call[q])
  /\ call[p].version = call[q].version

\* C5 as stated: of the calls that read the same version of a key one commits and
\* every other observes ConcurrentModification.
C5_LosersSeeConcurrentModification ==
  \A p, q \in Callers :
    (SameSerialStep(p, q) /\ call[p].result = "committed" /\ call[q].pc = "done")
    => call[q].result = "concurrent_modification"

\* C5 amended: of the calls that read the same version of a key at most one
\* commits, and every other one that has ended failed with
\* ConcurrentModification or with a store error.
C5_AtMostOneCommitPerVersion ==
  \A p, q \in Callers :
    (SameSerialStep(p, q) /\ call[p].result = "committed")
    => /\ call[q].result # "committed"
       /\ call[q].pc = "done"
          => call[q].result \in {"concurrent_modification", "store_error"}

\* two calls read the same version of an existing row: one committed, the other
\* saw ConcurrentModification at its update
C5_Witness ==
  \E p, q \in Callers :
    /\ SameSerialStep(p, q)
    /\ call[p].version > 1
    /\ call[p].result = "committed"
    /\ call[q].result = "concurrent_modification"

\* C9: a step of a call that is not its successful commit, its failing step
\* included, leaves the committed store as it is: no Transaction row, no
\* journal entry, no new balance row, balance and version unchanged.
C9_FailedCallLeavesStore ==
  [][\A p \in Callers :
       (StepOf(p) /\ call'[p].result # "committed") => db' = db]_vars

\* a call failed after it had inserted its row and the store holds nothing of it
C9_Witness ==
  \E p \in Callers :
    /\ call[p].result \in {"concurrent_modification", "store_error"}
    /\ call[p].txId # 0
    /\ \A n \in 1..Len(db.transactions) : db.transactions[n].ext # call[p].ext
    /\ Len(db.journal) = 2 * Len(db.transactions)
    /\ Len(db.transactions) = 1

\* C10: the row a commit adds has balance_before equal to the balance stored
\* immediately before the commit (zero when there was no row) and balance_after
\* equal to balance_before plus amount.
C10_RowChainsToStoredBalance ==
  [][\A p \in Callers :
       (StepOf(p) /\ call'[p].result = "committed")
       => /\ Len(db'.transactions) = Len(db.transactions) + 1
          /\ LET t == db'.transactions[Len(db'.transactions)]
             IN /\ t.balanceBefore = GetBalance(db, t.userId, t.asset)
                /\ t.balanceAfter = t.balanceBefore + t.amount
                /\ GetBalance(db', t.userId, t.asset) = t.balanceAfter]_vars

\* a row committed on a non-zero balance
C10_Witness ==
  \E n \in 1..Len(db.transactions) :
    /\ db.transactions[n].balanceBefore = 2
    /\ db.transactions[n].amount = 0 - 1
    /\ db.transactions[n].balanceAfter = 1

\* C31: a call rejected as a duplicate has written nothing: the step that rejects
\* it leaves the committed store, the write lock and the open transaction as
\* they are, the call never held the lock, read no balance row and inserted no
\* row; so a key without a balance row still has none and no version changed.
C31_DuplicateWritesNothing ==
  [][\A p \in Callers :
       (StepOf(p) /\ call'[p].result = "duplicate")
       => /\ db' = db
          /\ wtx' = wtx
          /\ writer' = writer
          /\ writer # p
          /\ call[p].version = 0
          /\ call[p].txId = 0]_vars

\* a call on a key without a balance row was rejected as a duplicate of a row
\* committed on another key, and its key still has no row
C31_Witness ==
  \E p \in Callers :
    /\ call[p].result = "duplicate"
    /\ ~ db.balances[CallKey(call[p])].exists
    /\ \E n \in RowsWithExt(db.transactions, call[p].ext) :
         <<db.transactions[n].userId, db.transactions[n].asset>> # CallKey(call[p])

\* p runs beside at least one other call, and every other call is on another
\* (user, asset) key and carries another external id
CrossKeyOnly(p) ==
  /\ \E q \in Callers \ {p} : call[q].pc # "idle"
  /\ \A q \in Callers \ {p} :
       call[q].pc # "idle"
       => /\ <<call[q].userId, call[q].asset>> # <<call[p].userId, call[p].asset>>
          /\ call[q].ext # call[p].ext

RowsOfKey(store, key) ==
  {n \in 1..Len(store.transactions) :
     <<store.transactions[n].userId, store.transactions[n].asset>> = key}

\* C32 as stated: concurrent calls on different keys with distinct external ids
\* all commit in any interleaving.
C32_CrossKeyCallsAllCommit ==
  \A p \in Callers :
    (call[p].pc = "done" /\ CrossKeyOnly(p)) => call[p].result = "committed"

\* C32 amended: concurrent calls on different keys with distinct external ids
\* never fail with ConcurrentModification or as duplicates because of each
\* other and leave each other's key as it is: a call that ended has committed,
\* and then its key holds its one row and its amount whatever the other call
\* did, or its write was refused because the other call held the write lock,
\* and then its key holds nothing of it.
C32_CrossKeyCallsDoNotConflict ==
  \A p \in Callers :
    (call[p].pc = "done" /\ CrossKeyOnly(p))
    => LET key == <<call[p].userId, call[p].asset>>
       IN /\ call[p].result \in {"committed", "store_error"}
          /\ call[p].result = "committed"
             => /\ Cardinality(RowsOfKey(db, key)) = 1
                /\ db.balances[key].exists
                /\ db.balances[key].balance = call[p].amount
                /\ db.balances[key].version = 2
          /\ call[p].result = "store_error"
             => /\ RowsOfKey(db, key) = {}
                /\ ~ db.balances[key].exists

\* two calls on different keys ran at once: one committed, the other was refused
\* the write lock and left nothing
C32_Witness ==
  \E p, q \in Callers :
    /\ CrossKeyOnly(p) /\ CrossKeyOnly(q)
    /\ call[p].result = "committed"
    /\ call[q].result = "store_error"
    /\ Len(db.transactions) = 1
    /\ ~ db.balances[<<call[q].userId, call[q].asset>>].exists

\* C33: a balance row is inserted only for a key that has none, so no key ever
\* has two; a call that read no row and reaches its insert when a row of the
\* key is committed (it lost the creation race) ends there with an error, has
\* inserted no Transaction row and leaves the store as it is.
C33_OneBalanceRowPerKey ==
  [][\A p \in Callers :
       LET key == <<call[p].userId, call[p].asset>>
       IN /\ (call[p].pc = "create" /\ call'[p].pc = "insert")
             => /\ ~ db.balances[key].exists
                /\ writer' = p
                /\ wtx'.balances[key].exists
          /\ (call[p].pc = "create" /\ StepOf(p) /\ db.balances[key].exists)
             => /\ call'[p].pc = "done"
                /\ call'[p].result = "store_error"
                /\ call'[p].txId = 0
                /\ db' = db]_vars

\* two calls read the same absent key; one committed the row, the other failed
\* before inserting a Transaction row and the store holds the winner's row only
C33_Witness ==
  \E p, q \in Callers :
    /\ p # q
    /\ CallKey(call[p]) = CallKey(call[q])
    /\ call[p].version = 1 /\ call[q].version = 1
    /\ call[p].result = "committed"
    /\ call[q].result = "store_error"
    /\ call[q].txId = 0
    /\ Len(db.transactions) = 1
    /\ Len(db.journal) = 2
    /\ db.balances[CallKey(call[p])].version = 2

\* the rows of the key committed before row n, and the last of a set of rows
EarlierRows(store, key, n) == {m \in RowsOfKey(store, key) : m < n}

LastOf(rows) == CHOOSE n \in rows : \A m \in rows : m <= n

\* C34: for each (user, asset), taking its Transaction rows in commit order, the
\* first has balance_before = 0, every later one has balance_before equal to the
\* previous one's balance_after, and the balance row holds the last one's
\* balance_after and id; a key without rows has no balance row.
C34_RowsChainPerKey ==
  \A k \in Keys :
    LET rows == RowsOfKey(db, k)
    IN /\ \A n \in rows :
            db.transactions[n].balanceBefore
              = IF EarlierRows(db, k, n) = {} THEN 0
                ELSE db.transactions[LastOf(EarlierRows(db, k, n))].balanceAfter
       /\ rows # {}
          => /\ db.balances[k].exists
             /\ db.balances[k].balance = db.transactions[LastOf(rows)].balanceAfter
             /\ db.balances[k].lastTx = db.transactions[LastOf(rows)].id
       /\ rows = {} => ~ db.balances[k].exists

\* two rows of one key were committed around a row of another key
C34_Witness ==
  /\ Len(db.transactions) = 3
  /\ RowsOfKey(db, <<U1, SYM>>) = {1, 3}
  /\ RowsOfKey(db, <<U2, SYM>>) = {2}
  /\ db.transactions[1].balanceAfter = 2
  /\ db.transactions[3].balanceBefore = 2
  /\ db.transactions[3].balanceAfter = 1
  /\ db.balances[<<U1, SYM>>].lastTx = 3

\* C35: a balance row exists only once a call on its key has committed, and
\* after k >= 1 committed calls on the key its version is k + 1: the first call
\* inserts the row at version 1 and its own update raises it to 2.
C35_VersionCountsCommits ==
  \A k \in Keys :
    db.balances[k].exists
    => /\ Cardinality(RowsOfKey(db, k)) >= 1
       /\ db.balances[k].version = Cardinality(RowsOfKey(db, k)) + 1

\* the first call on a key took its row from absent to version 2 and two more
\* calls took it to version 4, beside a key without row
C35_Witness ==
  \E k \in Keys :
    /\ RowsOfKey(db, k) = {1, 2, 3}
    /\ db.transactions[1].balanceBefore = 0
    /\ db.balances[k].version = 4
    /\ \A p \in Callers : call[p].result = "committed"
    /\ \E p \in Callers : call[p].version = 1

\* ------------------------------------------------------------ properties of the system

LedgerKey == <<U1, IniSymbol>>

C6_ObservedWithdrawalSuppressed ==
  \A i \in Initiators :
    ini[i].outcome = "success"
    => Cardinality(RowsWithExt(db.transactions, IdemKey(i))
                   \cup RowsWithExt(db.transactions, WId(i))) <= 1

\* C7: two runs' pre-debits never commit one after the other on a balance that
\* only one of them fits.
C7_NeverBothDebitsCommit ==
  \A i, j \in Initiators :
    i # j =>
      ~ \E m \in RowsWithExt(db.transactions, IdemKey(i)),
           n \in RowsWithExt(db.transactions, IdemKey(j)) :
          /\ db.transactions[n].balanceBefore = db.transactions[m].balanceAfter
          /\ db.transactions[n].balanceAfter < 0

\* rows of the ledger key strictly between rows m and n
RowsBetween(m, n) ==
  {x \in (m + 1)..(n - 1) :
     <<db.transactions[x].userId, db.transactions[x].asset>> = LedgerKey}

\* C8: a run that ended rolled back left its debit row, under its key, and one
\* compensating row with external id rev:{key}, reference {key} and the
\* opposite amount; with no other row of the key in between, the balance after
\* the compensating row is the balance before the debit.
C8_ReversalCompensates ==
  \A i \in Initiators :
    ini[i].outcome = "rolled_back"
    => /\ Cardinality(RowsWithExt(db.transactions, IdemKey(i))) = 1
       /\ Cardinality(RowsWithExt(db.transactions, ReversalExternalId(IdemKey(i)))) = 1
       /\ \A m \in RowsWithExt(db.transactions, IdemKey(i)),
             n \in RowsWithExt(db.transactions, ReversalExternalId(IdemKey(i))) :
            /\ m < n
            /\ db.transactions[m].amount = 0 - WithdrawAmount
            /\ db.transactions[n].amount = WithdrawAmount
            /\ db.transactions[n].reference = IdemKey(i)
            /\ <<db.transactions[n].userId, db.transactions[n].asset>>
                 = <<db.transactions[m].userId, db.transactions[m].asset>>
            /\ RowsBetween(m, n) = {}
               => db.transactions[n].balanceAfter = db.transactions[m].balanceBefore

\* a run was rolled back and the balance is the deposit again
C8_Witness ==
  \E i \in Initiators :
    /\ ini[i].outcome = "rolled_back"
    /\ Len(db.transactions) = 3
    /\ db.transactions[3].ext = ReversalExternalId(IdemKey(i))
    /\ GetBalance(db, U1, IniSymbol) = DepositAmount

\* ------------------------------------------------------------ versions, journal, negative balances

\* C11: no step lowers a balance row's version; a commit on an existing row
\* raises that row's version by exactly 1 and leaves the other rows' versions,
\* and a failing step leaves every version as it is.
C11_VersionMonotonic ==
  [][/\ \A k \in Keys : db'.balances[k].version >= db.balances[k].version
     /\ \A p \in Callers :
          /\ (StepOf(p) /\ call'[p].result = "committed")
             => \A k \in Keys :
                  /\ (k = CallKey(call[p]) /\ db.balances[k].exists)
                     => db'.balances[k].version = db.balances[k].version + 1
                  /\ k # CallKey(call[p])
                     => db'.balances[k].version = db.balances[k].version
          /\ (StepOf(p) /\ call'[p].result \in Failures)
             => \A k \in Keys : db'.balances[k] = db.balances[k]]_vars

\* two commits on one key took its row to version 3 and a third call on the key failed
C11_Witness ==
  \E p \in Callers :
    /\ call[p].result \in Failures
    /\ db.balances[CallKey(call[p])].version = 3
    /\ Cardinality({n \in 1..Len(db.transactions) :
                      <<db.transactions[n].userId, db.transactions[n].asset>>
                        = CallKey(call[p])}) = 2

JournalOf(store, id) == {j \in 1..Len(store.journal) : store.journal[j].txId = id}

RECURSIVE SumField(_, _, _, _)
SumField(journal, js, field, n) ==
  IF n = 0 THEN 0
  ELSE SumField(journal, js, field, n - 1)
       + (IF n \in js THEN journal[n][field] ELSE 0)

\* C12: every committed Transaction row has exactly two journal entries, one on
\* the user_asset account and one on the system_liability account, and their
\* debits sum to their credits.
C12_TwoBalancedJournalEntries ==
  \A n \in 1..Len(db.transactions) :
    LET js == JournalOf(db, db.transactions[n].id)
    IN /\ Cardinality(js) = 2
       /\ {db.journal[j].accountType : j \in js} = {"user_asset", "system_liability"}
       /\ SumField(db.journal, js, "debit", Len(db.journal))
            = SumField(db.journal, js, "credit", Len(db.journal))

\* a deposit and a withdrawal are committed, with four journal entries
C12_Witness ==
  /\ Len(db.journal) = 4
  /\ \E m, n \in 1..Len(db.transactions) :
       /\ db.transactions[m].type = "deposit"
       /\ db.transactions[n].type = "withdrawal"
       /\ SumField(db.journal, JournalOf(db, db.transactions[n].id), "debit", Len(db.journal)) = 1

\* C13: a debit is never refused for taking the balance below zero: every
\* committed debit row has balance_after = balance_before + amount however
\* negative, and a call that ended with ConcurrentModification lost to a
\* committed call that read the same version.
C13_NegativeBalanceAllowed ==
  /\ \A n \in 1..Len(db.transactions) :
       db.transactions[n].amount < 0
       => db.transactions[n].balanceAfter
            = db.transactions[n].balanceBefore + db.transactions[n].amount
  /\ \A k \in Keys : db.balances[k].exists => db.balances[k].balance = ConfirmedSum(db, k)
  /\ \A p \in Callers :
       call[p].result = "concurrent_modification"
       => \E q \in Callers : SameSerialStep(p, q) /\ call[q].result = "committed"

\* a withdrawal on a key without a row is committed: balance_after is the amount
C13_Witness ==
  \E p \in Callers :
    /\ call[p].result = "committed"
    /\ call[p].type = "withdrawal"
    /\ Len(db.transactions) = 1
    /\ db.transactions[1].balanceBefore = 0
    /\ db.transactions[1].balanceAfter = call[p].amount
    /\ GetBalance(db, call[p].userId, call[p].asset) = 0 - 1

\* ------------------------------------------------------------ claims: reconciler

\* the loop handles the head of the queue in this step
DispatchStep ==
  /\ recon.pc = "dispatch"
  /\ recon.queue # <<>>
  /\ recon' # recon
  /\ recon'.pc \in {"dispatch", "ledger"}

InPage(id) == \E n \in 1..Len(recon.page) : recon.page[n].id = id
InQueue(id) == \E n \in 1..Len(recon.queue) : recon.queue[n].id = id

\* handling a fetched transaction whose status is not final moves the loop on and changes nothing else
NotFinalIsPassedOver ==
  (DispatchStep /\ Head(recon.queue).status # FinalStatus(Head(recon.queue).id))
    => /\ recon' = [recon EXCEPT !.queue = Tail(@), !.ret = "nil"]
       /\ call' = call
       /\ db' = db
       /\ wtx' = wtx
       /\ processedTxIds' = processedTxIds

\* the fetch of wallet k succeeds in this step
Fetched(k) ==
  /\ recon'.w = k
  /\ recon.w # k
  /\ recon'.ret # "fetch_error"

\* a fetch that succeeds returns every existing custody transaction of the
\* wallet with its current status
PollFetchesAll ==
  \A id \in CustodyIds :
    (Fetched(WalletOf(id)) /\ custody[id] # "ABSENT")
           => \E n \in 1..Len(recon'.queue) :
                /\ recon'.queue[n].id = id
                /\ recon'.queue[n].status = custody[id]

HandlerReturns ==
  /\ recon.pc \in {"dispatch", "ledger"}
  /\ recon.queue # <<>>
  /\ recon'.pc = "dispatch"
  /\ recon'.queue = Tail(recon.queue)
  /\ recon'.page = recon.page
  /\ recon'.ret # "none"

\* C15: when the ledger call of the reconciler ends as a duplicate, the store is left as it was and the handler marks the transaction and returns nil; when the handler of a deposit whose lookup key has no user returns nil, no ledger call was made, the store is unchanged and the transaction is marked; and a transaction that is in the cache is passed over without a call and without a change to the store or the cache.
C15_DuplicateOrUnknownMarked ==
  [][/\ (call[Recon].pc # "done" /\ call'[Recon].pc = "done" /\ call'[Recon].result = "duplicate")
        => db' = db
     /\ (HandlerReturns /\ recon.pc = "ledger" /\ call[Recon].result = "duplicate")
        => /\ db' = db
           /\ recon'.ret = "nil"
           /\ processedTxIds' = markTransactionProcessed(processedTxIds, Head(recon.queue).id)
     /\ (HandlerReturns /\ recon.pc = "dispatch" /\ Head(recon.queue).id = D2 /\ recon'.ret = "nil"
           /\ Head(recon.queue).status = FinalStatus(D2))
        => /\ db' = db /\ wtx' = wtx /\ call' = call
           /\ processedTxIds' = markTransactionProcessed(processedTxIds, D2)
     /\ (DispatchStep /\ isTransactionProcessed(Head(recon.queue).id))
        => /\ db' = db /\ wtx' = wtx /\ call' = call
           /\ processedTxIds' = processedTxIds
           /\ recon'.queue = Tail(recon.queue)]_vars

\* the deposit to the address without a user is in the cache with no row and no balance change, and a later cycle that fetched it again has passed over it
C15_Witness ==
  /\ isTransactionProcessed(D2)
  /\ RowsWithExt(db.transactions, D2) = {}
  /\ Len(db.transactions) = 0
  /\ recon.pc = "dispatch"
  /\ InPage(D2) /\ ~InQueue(D2)
  /\ recon.ret = "none"

TransientResults == {"concurrent_modification", "store_error", "duplicate_check_failed"}

\* C16: when the handler of a custody transaction returns after a ledger call that ended in a concurrent modification or a store error, or after failing to parse the amount, the processed cache is left as it was, so the next cycle dispatches the transaction again.
C16_TransientErrorNotMarked ==
  [][/\ (HandlerReturns /\ recon.pc = "ledger" /\ call[Recon].result \in TransientResults)
        => processedTxIds' = processedTxIds
     /\ (HandlerReturns /\ recon.pc = "dispatch" /\ Head(recon.queue).amount.err
           /\ Head(recon.queue).status = FinalStatus(Head(recon.queue).id)
           /\ ~isTransactionProcessed(Head(recon.queue).id))
        => /\ processedTxIds' = processedTxIds
           /\ recon'.ret = "error"]_vars

\* custody transactions that are attributable to a user and have an amount
Attributable == {D1} \cup {WId(i) : i \in Initiators}

\* C17: under fair scheduling of the poll loop and transient failures, every custody transaction attributable to a user that has reached its final status is eventually recorded as a ledger row with its id.
C17_FinalEventuallyRecorded ==
  \A id \in Attributable :
    (custody[id] = FinalStatus(id)) ~> (RowsWithExt(db.transactions, id) # {})

\* C18: whenever the poll loop passes over a fetched transaction because its id is in the processed cache, handling it with an empty cache would leave the ledger as it is: the handler would make no ledger call, or the call it would make is rejected as a duplicate because a row with its external id is committed.
C18_CacheDoesNotAffectLedger ==
  [][(DispatchStep /\ isTransactionProcessed(Head(recon.queue).id))
       => LET d == Handle([Head(recon.queue) EXCEPT !.status = custody[Head(recon.queue).id]], MonitoredWallets[recon.w])
          IN d.do = "call" => IsDuplicate(db.transactions, d.args.ext)]_vars

\* ------------------------------------------------------------ claims: initiator

\* rows written on behalf of run i: its pre-debit and its reversal
RowsOfRun(i) ==
  RowsWithExt(db.transactions, IdemKey(i))
    \cup RowsWithExt(db.transactions, ReversalExternalId(IdemKey(i)))

\* C19: a run whose balance check finds less than the requested amount ends as insufficient funds (unless the balance query itself fails) in a step that changes neither the store nor custody, and a run that ended so has no ledger call, no ledger row and no custody withdrawal.
C19_InsufficientFundsNoSideEffect ==
  /\ [](\A i \in Initiators :
          ini[i].outcome = "insufficient_funds"
            => /\ call[i] = NoCall
               /\ RowsOfRun(i) = {}
               /\ custody[WId(i)] = "ABSENT")
  /\ [][\A i \in Initiators :
          (ini[i].pc = "start" /\ ini'[i] # ini[i]
             /\ GetBalance(db, U1, IniSymbol) < WithdrawAmount)
            => /\ ini'[i].pc = "done"
               /\ ini'[i].outcome \in {"insufficient_funds", "balance_error"}
               /\ db' = db /\ wtx' = wtx /\ call' = call /\ custody' = custody]_vars

\* a run ended as insufficient funds although a deposit is committed: another run's pre-debit had taken the balance below the amount, and nothing was written or submitted for this run
C19_Witness ==
  \E i \in Initiators :
    /\ ini[i].outcome = "insufficient_funds"
    /\ GetBalance(db, U1, IniSymbol) = DepositAmount - WithdrawAmount
    /\ RowsOfRun(i) = {}
    /\ custody[WId(i)] = "ABSENT"
    /\ Len(db.transactions) = 2

\* ------------------------------------------------------------ claims: idempotency keys

UniqueFirstSegments(users) ==
  \A m, n \in 1..Len(users) : users[m][1] = users[n][1] => m = n

\* C20: a minted key has the first segment of the id of the user it was minted for; a user the lookup returns is in the table and its id has the first segment of the key; and when the first segments of the table's users are unique and the user is in the table, the lookup of the minted key returns that user.
C20_KeyPrefixResolves ==
  /\ keys.minted => keys.key[1] = keys.user[1]
  /\ (keys.pc = "resolved" /\ ~keys.found.err)
       => /\ keys.found.userId \in Range(keys.users)
          /\ keys.found.userId[1] = keys.key[1]
  /\ (keys.pc = "resolved" /\ keys.minted /\ keys.user \in Range(keys.users)
        /\ UniqueFirstSegments(keys.users))
       => keys.found = Found(keys.user)

\* a key minted for the last of three users with distinct first segments, from a uuid whose first segment is another user's, resolved back to that user
C20_Witness ==
  /\ keys.pc = "resolved"
  /\ keys.minted
  /\ Len(keys.users) = MaxUsers
  /\ UniqueFirstSegments(keys.users)
  /\ keys.users[MaxUsers] = keys.user
  /\ keys.uuid[1] = keys.users[1][1]
  /\ keys.found = Found(keys.user)

\* ------------------------------------------------------------ claims: reversal

ReversalRows(i) == RowsWithExt(db.transactions, ReversalExternalId(IdemKey(i)))

\* C21: a reversal call for an original transaction whose reversal row is committed ends at its duplicate check, as a duplicate (or with the error of the check's query), in a step that leaves balances and rows as they are; no original transaction ever has two reversal rows; and a credit-back reported as duplicate leaves exactly the one reversal row.
C21_SecondReversalRejected ==
  /\ [](\A i \in Initiators :
          /\ Cardinality(ReversalRows(i)) <= 1
          /\ ini[i].outcome = "creditback_duplicate" => Cardinality(ReversalRows(i)) = 1)
  /\ [][\A i \in Initiators :
          (/\ call[i].pc = "dupcheck"
           /\ call'[i] # call[i]
           /\ call[i].reference = IdemKey(i)
           /\ ReversalRows(i) # {})
          => /\ call'[i].pc = "done"
             /\ call'[i].result \in {"duplicate", "duplicate_check_failed"}
             /\ db' = db]_vars

\* the credit-back of a run whose reversal had committed was rejected as a duplicate; the one reversal row stands and the balance is the deposit
C21_Witness ==
  \E i \in Initiators :
    /\ ini[i].outcome = "creditback_duplicate"
    /\ Cardinality(ReversalRows(i)) = 1
    /\ Cardinality(RowsWithExt(db.transactions, IdemKey(i))) = 1
    /\ GetBalance(db, U1, IniSymbol) = DepositAmount

\* ------------------------------------------------------------ claims: deposits

\* the reconciler's ledger call for the deposit at the head of the queue commits in this step
DepositCommits ==
  /\ recon.pc = "ledger"
  /\ Head(recon.queue).type = "DEPOSIT"
  /\ call[Recon].pc # "done"
  /\ call'[Recon].pc = "done"
  /\ call'[Recon].result = "committed"

\* C22: when the reconciler's handling of an imported deposit of amount x > 0 to the stored address of a user commits, the balance of that user under the wallet's asset key rises by exactly x, the other balances stay, exactly one transaction row is added (a deposit of x with the custody id as external id and the lookup key as address) and exactly two journal entries are added, both for that row.
C22_DepositApplied ==
  [][DepositCommits
       => LET tx == Head(recon.queue)
              k == <<U1, Wallet.AssetNetwork>>
              n == Len(db.transactions) + 1
          IN /\ tx.status = "TRANSACTION_IMPORTED"
             /\ tx.amount.value > 0
             /\ db'.balances[k].balance = db.balances[k].balance + tx.amount.value
             /\ \A j \in Keys \ {k} : db'.balances[j] = db.balances[j]
             /\ Len(db'.transactions) = n
             /\ SubSeq(db'.transactions, 1, n - 1) = db.transactions
             /\ db'.transactions[n].ext = tx.id
             /\ db'.transactions[n].address = tx.address
             /\ db'.transactions[n].type = "deposit"
             /\ db'.transactions[n].amount = tx.amount.value
             /\ <<db'.transactions[n].userId, db'.transactions[n].asset>> = k
             /\ Len(db'.journal) = Len(db.journal) + 2
             /\ Cardinality(JournalOf(db', db'.transactions[n].id)) = 2]_vars

\* the deposit is recorded: one row with the custody id and the deposit address, two journal entries, and the balance is the deposited amount
C22_Witness ==
  /\ Cardinality(RowsWithExt(db.transactions, D1)) = 1
  /\ Len(db.transactions) = 1
  /\ db.transactions[1].address = ADDR1
  /\ Len(db.journal) = 2
  /\ GetBalance(db, U1, Wallet.AssetNetwork) = DepositAmount
  /\ isTransactionProcessed(D1)

\* ------------------------------------------------------------ asset key convention

NonPositiveDepositAtHead ==
  /\ recon.pc = "dispatch"
  /\ recon.queue # <<>>
  /\ Head(recon.queue).type = "DEPOSIT"
  /\ Head(recon.queue).status = "TRANSACTION_IMPORTED"
  /\ ~Head(recon.queue).amount.err
  /\ Head(recon.queue).amount.value <= 0
  /\ ~isTransactionProcessed(Head(recon.queue).id)

\* no row and no ledger call carries a non-positive deposit
NoNonPositiveDeposit ==
  /\ \A n \in 1..Len(db.transactions) :
       db.transactions[n].type = "deposit" => db.transactions[n].amount > 0
  /\ \A p \in Procs :
       (call[p] # NoCall /\ call[p].type = "deposit") => call[p].amount > 0
  /\ \A d \in {D4, D5} : RowsWithExt(db.transactions, d) = {} /\ RowsWithExt(wtx.transactions, d) = {}

\* C24: a deposit whose parsed amount is zero or negative never produces a
\* ledger row or a balance change: its handler starts no ledger call and
\* leaves the store as it was, and no deposit row or deposit call with a
\* non-positive amount ever exists.
C24_NonPositiveDepositNoEffect ==
  /\ []NoNonPositiveDeposit
  /\ [][(NonPositiveDepositAtHead /\ DispatchStep)
          => /\ db' = db /\ wtx' = wtx /\ call' = call
             /\ recon'.pc = "dispatch"
             /\ recon'.queue = Tail(recon.queue)]_vars

\* a zero and a negative deposit in final status have been handled
C24_Witness ==
  /\ \E d \in {D4, D5} :
       /\ custody[d] = "TRANSACTION_IMPORTED"
       /\ InPage(d) /\ ~InQueue(d)
       /\ \E n \in 1..Len(recon.page) :
            recon.page[n].id = d /\ recon.page[n].status = "TRANSACTION_IMPORTED"
  /\ recon.pc = "dispatch"
  /\ recon.ret = "nil"
  /\ Len(db.transactions) = 0

\* C25: when the handler skips a deposit in final status because its amount
\* is zero or negative, the transaction's id is inserted into the processed
\* cache.
C25_NonPositiveDepositMarked ==
  [][(NonPositiveDepositAtHead /\ DispatchStep)
       => processedTxIds' = markTransactionProcessed(processedTxIds, Head(recon.queue).id)]_vars

\* transactions the handlers reject without a ledger call: the deposit to an
\* address stored under another asset, the withdrawal whose key names no user
Rejected == {D6, WX}

\* the handler of a rejected transaction in final status returns in this step
RejectedHandled(id) ==
  /\ HandlerReturns
  /\ recon.pc = "dispatch"
  /\ Head(recon.queue).id = id
  /\ Head(recon.queue).status = FinalStatus(id)

\* a rejected transaction has no row, no call and no cache entry
NeverApplied(id) ==
  /\ RowsWithExt(db.transactions, id) = {}
  /\ RowsWithExt(wtx.transactions, id) = {}
  /\ \A p \in Procs : call[p].ext # id
  /\ ~isTransactionProcessed(id)

LoopCanStep ==
  \/ ENABLED PollWallet
  \/ ENABLED Dispatch
  \/ ENABLED AfterLedger
  \/ recon.pc = "ledger" /\ call[Recon].pc \notin {"idle", "done"}

\* after a failed fetch the next wallet is due, after a failed handler the
\* next transaction, and the loop is never at an end
LoopGoesOn ==
  /\ (recon.ret = "fetch_error" /\ recon.w < Len(MonitoredWallets)) => ENABLED PollWallet
  /\ (recon.pc = "dispatch" /\ recon.queue # <<>>) => ENABLED Dispatch
  /\ (recon.pc = "dispatch" /\ recon.queue = <<>>) => ENABLED Dispatch \/ ENABLED PollWallet
  /\ LoopCanStep

\* C27: a failed fetch of one wallet leaves the cycle at that wallet with
\* nothing to dispatch and the following wallet due; a handler that returns
\* an error takes only its own transaction from the queue, the rest of the
\* page stays queued under the same wallet; and in every state the poll loop
\* can take a further step.
C27_FailuresDoNotStopCycle ==
  /\ []LoopGoesOn
  /\ [][/\ (recon'.ret = "fetch_error" /\ recon' # recon)
             => /\ recon'.w = recon.w + 1
                /\ recon'.pc = "dispatch"
                /\ recon'.queue = <<>>
        /\ (HandlerReturns /\ recon'.ret = "error")
             => /\ recon'.queue = Tail(recon.queue)
                /\ recon'.w = recon.w]_vars

\* in the second wallet of a cycle the handler of the first transaction
\* returned an error and the second transaction is still to be dispatched
C27_Witness ==
  /\ recon.pc = "dispatch"
  /\ recon.w = 2
  /\ Len(recon.page) = 2
  /\ Len(recon.queue) = 1
  /\ recon.ret = "error"

\* ------------------------------------------------------------ shutdown

Ended == life.main \in {"graceful", "forced"}

ReconcileReturns ==
  /\ call[Auditor].pc = "reconcile"
  /\ call'[Auditor].pc = "done"
  /\ call'[Auditor].result # "store_error"

\* C29: ReconcileBalance changes nothing in the store, and when it returns it
\* reports success exactly when the stored balance of the key equals the sum
\* of the key's confirmed transaction amounts, and a mismatch otherwise.
C29_ReconcileExact ==
  [][ReconcileReturns
       => /\ db' = db /\ wtx' = wtx /\ writer' = writer
          /\ call'[Auditor].result \in {"reconciled", "balance_mismatch"}
          /\ (call'[Auditor].result = "reconciled")
               <=> (GetBalance(db, call[Auditor].userId, call[Auditor].asset)
                      = ConfirmedSum(db, CallKey(call[Auditor])))]_vars

\* ------------------------------------------------------------ pre-debit before custody

\* the committed pre-debit rows of run i
PreDebitRows(i) ==
  {n \in RowsWithExt(db.transactions, IdemKey(i)) :
     /\ db.transactions[n].type = "withdrawal"
     /\ db.transactions[n].userId = U1
     /\ db.transactions[n].asset = IniSymbol
     /\ db.transactions[n].amount = 0 - WithdrawAmount}

\* the pre-debit of run i failed
PreDebitFailed(i) == ini[i].pc = "done" /\ ini[i].outcome \in Failures

ReconcilerRows == {n \in 1..Len(db.transactions) : db.transactions[n].ext \in CustodyIds}

\* C36: every row written through the reconciler has the type of its custody
\* transaction, a strictly positive amount when it is a deposit and a strictly
\* negative one when it is a withdrawal, whether the custody platform reported
\* the withdrawal's amount unsigned or negative.
C36_RowSignFollowsType ==
  \A n \in ReconcilerRows :
    LET t == db.transactions[n]
    IN IF t.ext \in Deposits
       THEN t.type = "deposit" /\ t.amount > 0
       ELSE /\ t.type = "withdrawal"
            /\ t.amount < 0
            /\ t.amount = 0 - Abs(ReportedWithdrawalAmount(t.ext))

\* the reconciler recorded a withdrawal whose amount custody reported unsigned
\* and one it reported negative, beside the deposit
C36_Witness ==
  \E m, n \in ReconcilerRows :
    /\ db.transactions[m].ext \notin Deposits
    /\ db.transactions[n].ext \notin Deposits
    /\ ReportedWithdrawalAmount(db.transactions[m].ext) > 0
    /\ ReportedWithdrawalAmount(db.transactions[n].ext) < 0
    /\ db.transactions[m].amount = 0 - WithdrawAmount
    /\ db.transactions[n].amount = 0 - WithdrawAmount
    /\ \E d \in ReconcilerRows : db.transactions[d].ext = D1 /\ db.transactions[d].amount = DepositAmount

\* the loop has handled the fetched transaction id in this cycle
HandledInCycle(id) ==
  /\ recon.pc = "dispatch"
  /\ InPage(id)
  /\ ~InQueue(id)

\* C37: a deposit is attributed through transfer_to.account_identifier when
\* that is not empty, whatever its address, and through transfer_to.address
\* otherwise: the ledger call and the row of the deposit carry the user and the
\* address of that key, and a deposit whose identifier belongs to nobody is
\* never credited to the owner of its address.  A deposit with neither causes
\* no ledger call or row and is never marked processed.
C37_AttributionByIdentifierThenAddress ==
  /\ call[Recon].ext \in {D1, D7} => call[Recon].userId = U1 /\ call[Recon].address = ADDR1
  /\ \A n \in RowsWithExt(db.transactions, D1) \cup RowsWithExt(db.transactions, D7) :
       db.transactions[n].userId = U1 /\ db.transactions[n].address = ADDR1
  /\ call[Recon].ext \notin {D8, D9}
  /\ RowsWithExt(db.transactions, D8) = {}
  /\ RowsWithExt(db.transactions, D9) = {}
  /\ processedTxIds[D8] = NotProcessed

\* the deposit named by identifier is credited to the identifier's owner and
\* marked, and the imported deposit with an empty transfer_to has been handled
\* in this cycle and is not marked
C37_Witness ==
  /\ Cardinality(RowsWithExt(db.transactions, D7)) = 1
  /\ GetBalance(db, U1, SYM) = DepositAmount
  /\ processedTxIds[D7] # NotProcessed
  /\ custody[D8] = FinalStatus(D8)
  /\ HandledInCycle(D8)
  /\ \E n \in 1..Len(recon.page) :
       recon.page[n].id = D8 /\ recon.page[n].status = FinalStatus(D8)
  /\ processedTxIds[D8] = NotProcessed

\* C38: a cleanup sweep removes every cache entry marked earlier than now minus
\* the lookback window, keeps every entry marked at or after that instant,
\* adds none, and leaves the ledger, the ledger calls, the custody platform
\* and the poll loop as they are.
C38_SweepEvictsOldOnly ==
  [][Cleanup
       => /\ \A id \in CustodyIds :
               processedTxIds'[id]
                 = IF processedTxIds[id] # NotProcessed
                      /\ processedTxIds[id] < now - LookbackWindow
                   THEN NotProcessed
                   ELSE processedTxIds[id]
          /\ UNCHANGED <<db, writer, wtx, call, custody, recon, now>>]_vars

\* at the last instant the deposit recorded first is out of the cache while an
\* entry marked exactly one lookback window ago is still in it
C38_Witness ==
  /\ now = MaxTime
  /\ RowsWithExt(db.transactions, D7) # {}
  /\ processedTxIds[D7] = NotProcessed
  /\ custody[D9] = FinalStatus(D9)
  /\ processedTxIds[D9] = now - LookbackWindow
  /\ recon = ReconIdle

\* the handler returns from the ledger call in this step
AfterLedgerStep ==
  /\ recon.pc = "ledger"
  /\ recon'.pc = "dispatch"

\* the ledger holds the deposit's row, the handler of this cycle returned an
\* error for it and the cache does not hold it
CommittedNotMarked(id) ==
  /\ RowsWithExt(db.transactions, id) # {}
  /\ processedTxIds[id] = NotProcessed
  /\ recon.pc = "dispatch"
  /\ recon.ret = "error"
  /\ InPage(id)
  /\ ~InQueue(id)

RecordedOnceAndMarked(id) ==
  /\ processedTxIds[id] # NotProcessed
  /\ Cardinality(RowsWithExt(db.transactions, id)) = 1
  /\ GetBalance(db, U1, SYM) = DepositAmount

C40_NoAttributionToInactiveUser ==
  /\ [](/\ call[Recon].userId # U3
        /\ call[Recon].ext \notin {D10, WY}
        /\ \A n \in 1..Len(db.transactions) : db.transactions[n].userId # U3
        /\ \A a \in AssetKeys : ~ db.balances[<<U3, a>>].exists)
  /\ [][(DispatchStep /\ Head(recon.queue).id = D10
           /\ Head(recon.queue).status = FinalStatus(D10)
           /\ ~isTransactionProcessed(D10))
          => /\ recon'.pc = "dispatch"
             /\ \/ processedTxIds'[D10] # NotProcessed /\ recon'.ret = "nil"
                \/ processedTxIds' = processedTxIds /\ recon'.ret = "error"
             /\ UNCHANGED <<db, writer, wtx, call>>]_vars
  /\ [][(DispatchStep /\ Head(recon.queue).id = WY)
          => /\ recon'.pc = "dispatch"
             /\ recon'.ret = "nil"
             /\ UNCHANGED <<db, writer, wtx, call, processedTxIds>>]_vars

\* the deposit to the inactive user's address is marked without a row, and the
\* done withdrawal under the inactive user's prefix has been handled in this
\* cycle
C40_Witness ==
  /\ custody[D10] = FinalStatus(D10)
  /\ processedTxIds[D10] # NotProcessed
  /\ custody[WY] = FinalStatus(WY)
  /\ HandledInCycle(WY)
  /\ \E n \in 1..Len(recon.page) :
       recon.page[n].id = WY /\ recon.page[n].status = FinalStatus(WY)
  /\ processedTxIds[WY] = NotProcessed
  /\ db = EmptyStore

====
